---- MODULE Spec2Model ----
(***************************************************************************)
(* Model of the emgo symlink pipelines: emgo-movies.js (with its older     *)
(* copy unnamed/part_000), emgo-series.js and emgo-gemini-series.js.       *)
(* One behaviour is one installation: a variant, a dry-run flag and a      *)
(* batch of source files, run MaxRuns times against providers whose        *)
(* answers are fixed per request, with 429 responses as a transient extra. *)
(***************************************************************************)
EXTENDS Integers, Sequences, FiniteSets, TLC

\* ---------------------------------------------------------------- bounds
NumFiles == 2
MaxRuns == 2
MaxRateLimited == 1
MaxFaults == 1
MaxResults == 3
MaxTitleLen == 3

\* ------------------------------------------------------- program constants
RATE_LIMIT_BACKOFF == 10000

\* ------------------------------------------------------------------ data
Variants == {"movies", "series", "gemini"}

T_Duna == <<"D", "u", "n", "a">>
T_Dune == <<"D", "u", "n", "e">>
T_dune == <<"d", "u", "n", "e">>
T_none == << >>

\* Year tokens of a file name: four digits, or none.
Y2021 == <<"2", "0", "2", "1">>
Y1984 == <<"1", "9", "8", "4">>
NoYear == << >>

\* The source files of a batch.  A file is given by its basename and by the
\* tokens its name is made of: the title text before the year or episode
\* token, the year token ("" when absent), the S<ss>E<ee>[-E<ee>] token
\* (se: present; season, first episode, last episode or 0), the quality
\* descriptors, and the title its parent folder cleans to.
FileA == [base |-> "A", title |-> T_Duna, year |-> Y2021, se |-> TRUE,
          season |-> 1, start |-> 1, end |-> 0, desc |-> "", folder |-> T_Duna]
FileB == [base |-> "B", title |-> T_Duna, year |-> Y2021, se |-> TRUE,
          season |-> 1, start |-> 2, end |-> 3, desc |-> "1080P", folder |-> T_Duna]
FileC == [base |-> "C", title |-> T_dune, year |-> NoYear, se |-> TRUE,
          season |-> 2, start |-> 1, end |-> 0, desc |-> "", folder |-> T_dune]
FileU == [base |-> "U", title |-> T_none, year |-> NoYear, se |-> FALSE,
          season |-> 0, start |-> 0, end |-> 0, desc |-> "", folder |-> T_Duna]

FileShapes == <<FileA, FileB, FileC, FileU>>

\* A special: Duna S00E01.
FileS0 == [base |-> "S", title |-> T_Duna, year |-> NoYear, se |-> TRUE,
           season |-> 0, start |-> 1, end |-> 0, desc |-> "", folder |-> T_Duna]

SpecialShapes == <<FileS0, FileA>>

\* The batches with specials: NumFiles consecutive files of the cycle S0, A.
SpecialBatch(o) ==
    [i \in 1..NumFiles |-> SpecialShapes[((o + i - 2) % Len(SpecialShapes)) + 1]]

\* The batches: NumFiles consecutive files of the cycle A, B, C, U, from any
\* of its places.
Batch(o) == [i \in 1..NumFiles |-> FileShapes[((o + i - 2) % Len(FileShapes)) + 1]]

\* Provider records (a search result of the primary provider).
\* release_date / first_air_date is "YYYY-MM-DD".
R2021 == [kind |-> "rec", title |-> T_Dune, date |-> Y2021 \o <<"-", "1", "0", "-", "2", "2">>]
R1984 == [kind |-> "rec", title |-> T_Dune, date |-> Y1984 \o <<"-", "1", "2", "-", "1", "4">>]

\* What the primary provider answers to a search: an error, or a ranked
\* result list (possibly empty).
PrimaryAnswers ==
    {[kind |-> "error"],
     [kind |-> "results", results |-> << >>],
     [kind |-> "results", results |-> <<R1984, R2021>>]}

\* What the secondary provider answers: an error, Response "False", or a
\* canonical title.
SecondaryAnswers ==
    {[kind |-> "error"], [kind |-> "false"], [kind |-> "true", Title |-> T_Dune]}

Null == [kind |-> "null"]
Undefined == [kind |-> "undefined"]

\* ---------------------------------------------------- JavaScript objects
Get(obj, k) == IF k \in DOMAIN obj THEN obj[k] ELSE Undefined

Put(obj, k, v) == [x \in (DOMAIN obj) \cup {k} |-> IF x = k THEN v ELSE obj[x]]

Truthy(v) == v # Undefined /\ v # Null

EmptyObject == [x \in {} |-> Undefined]

\* Mutant: the metadata cache test asks whether the key is present.
CacheMiss_KeyAbsent(v) == v = Undefined

\* The metadata cache test of the resolvers: if (tmdbCache[key]) return ...,
\* if (!show), if (!tmdbCache[cacheKey])
CacheMiss(v) == ~Truthy(v)

\* ----------------------------------------------------------- pure helpers
LowerChar(c) ==
    CASE c = "D" -> "d"
      [] c = "A" -> "a"
      [] OTHER -> c

ToLowerCase(s) == [i \in DOMAIN s |-> LowerChar(s[i])]

\* String(n).padStart(2, '0') and its parseInt inverse, on the numbers the
\* file shapes use; "NaN" is String(parseInt(undefined)).
Pad2(n) == <<"01", "02", "03", "04", "05">>[n]

ParseIntStr(s) ==
    CASE s = "01" -> "1" [] s = "02" -> "2" [] s = "03" -> "3"
      [] s = "04" -> "4" [] s = "05" -> "5" [] OTHER -> "NaN"

RECURSIVE Range(_, _)
Range(a, b) == IF a > b THEN << >> ELSE <<Pad2(a)>> \o Range(a + 1, b)

RECURSIVE ReplaceChar(_, _, _)
ReplaceChar(s, c, by) ==
    IF s = << >> THEN << >>
    ELSE (IF Head(s) = c THEN by ELSE <<Head(s)>>) \o ReplaceChar(Tail(s), c, by)

\* ------------------------------------------------------------- the parsers
\* emgo-movies.js parseFileName: title before the year, year, descriptors.
parseFileNameMovies(f) ==
    [rawTitle |-> f.title, year |-> f.year, descriptors |-> f.desc]

\* emgo-series.js parseFileName: null without a season/episode token or
\* with season 0; the range is expanded when end > start and the span is
\* at most 20; an empty title falls back to the parent folder.
parseFileNameSeries(f) ==
    IF ~f.se \/ f.season = 0 THEN Null
    ELSE [kind |-> "parsed",
          rawTitle |-> IF f.title # << >> THEN f.title ELSE f.folder,
          season |-> Pad2(f.season),
          episodes |-> IF f.end # 0 /\ f.end > f.start /\ f.end - f.start <= 20
                       THEN Range(f.start, f.end) ELSE <<Pad2(f.start)>>,
          descriptors |-> f.desc]

\* emgo-gemini-series.js parseFileName: no bound on the range, no folder
\* fallback, no descriptors.
parseFileNameGemini(f) ==
    IF ~f.se \/ f.season = 0 THEN Null
    ELSE [kind |-> "parsed",
          rawTitle |-> f.title,
          season |-> Pad2(f.season),
          episodes |-> IF f.end # 0 THEN Range(f.start, f.end) ELSE <<Pad2(f.start)>>,
          descriptors |-> ""]

\* emgo-series.js createSymlink, the caller's fallback when the parser gave
\* null or no title: seasonEpisodeRegex always matches (its last
\* alternative is optional), at index 0; season and episode come from its
\* groups only when the S..E.. token starts the name, else they are NaN.
parsedSeries(f) ==
    LET p == parseFileNameSeries(f) IN
    IF p # Null /\ p.rawTitle # << >> THEN p
    ELSE [kind |-> "parsed",
          rawTitle |-> f.folder,
          season |-> IF f.se /\ f.title = << >> THEN Pad2(f.season) ELSE "NaN",
          episodes |-> IF f.se /\ f.title = << >> THEN <<Pad2(f.start)>> ELSE <<"NaN">>,
          descriptors |-> ""]

\* ---------------------------------------------------------- the resolvers
\* fetchMovie: key = `${query.toLowerCase()}|${year || ''}`
MovieKey(q, y) == <<ToLowerCase(q), y>>

\* createSymlink / processFile of the series variants: rawTitle.toLowerCase()
SeriesKey(q) == ToLowerCase(q)

\* String(year): the digits of a year, "null" for the null of a name
\* without a year.
StringOf(y) == IF y = NoYear THEN <<"n", "u", "l", "l">> ELSE y

\* s.startsWith(p)
StartsWith(s, p) == Len(p) <= Len(s) /\ SubSeq(s, 1, Len(p)) = p

\* r.release_date?.startsWith(String(year)): a record without the date
\* field gives undefined, which find takes as no match.
DateStartsWith(r, y) == "date" \in DOMAIN r /\ StartsWith(r.date, StringOf(y))

\* results.find(r => r.release_date?.startsWith(String(year))): the first
\* element that satisfies the test, or undefined
Find(results, y) ==
    LET hits == {i \in DOMAIN results : DateStartsWith(results[i], y)} IN
    IF hits = {} THEN Undefined
    ELSE results[CHOOSE i \in hits : \A j \in hits : i <= j]

\* Mutant: the first result whatever the year.
BestMovie_First(results, y) == results[1]

\* results.find(r => r.release_date?.startsWith(String(year))) || results[0]
BestMovie(results, y) ==
    LET exact == Find(results, y) IN
    IF exact # Undefined THEN exact ELSE results[1]

\* fetchSeriesFromTMDB: the exact year only when there is a year hint
BestSeries(results, yearHint) ==
    LET exact == Find(results, yearHint) IN
    IF yearHint # NoYear /\ exact # Undefined THEN exact ELSE results[1]

\* emgo-gemini-series.js fetchFromTMDB: response.data.results[0] || null
FirstResult(results) == IF Len(results) > 0 THEN results[1] ELSE Null

\* date.split('-')[0]
RECURSIVE SplitHead(_)
SplitHead(s) ==
    IF s = << >> \/ Head(s) = "-" THEN << >> ELSE <<Head(s)>> \o SplitHead(Tail(s))

\* ------------------------------------------------------- destination paths
\* A path under the destination root: the title folder, the season folder
\* ("" in the movie layout) and the file name ("" for a directory).
Dir(title, yr, seasonDir) ==
    [folder |-> <<title, yr>>, seasonDir |-> seasonDir, file |-> << >>]

\* Mutant: ':' becomes '-' with no space before it.
movieTitle_ColonToDash(m) ==
    ReplaceChar(ReplaceChar(m.title, ":", <<"-">>), "/", <<"-">>)

\* emgo-movies.js createSymlink lines 154-157
movieTitle(m) == ReplaceChar(ReplaceChar(m.title, ":", <<" ", "-">>), "/", <<"-">>)

movieFolder(m) == Dir(movieTitle(m), SplitHead(m.date), "")

movieDestFile(m, parsed) ==
    [folder |-> <<movieTitle(m), SplitHead(m.date)>>, seasonDir |-> "",
     file |-> <<movieTitle(m), SplitHead(m.date), parsed.descriptors>>]

\* emgo-series.js createSymlink lines 274-284 (no sanitization)
seriesBaseFolder(s, parsed) == Dir(s.title, SplitHead(s.date), ParseIntStr(parsed.season))

seriesDestFile(s, parsed, episode) ==
    [folder |-> <<s.title, SplitHead(s.date)>>, seasonDir |-> ParseIntStr(parsed.season),
     file |-> <<s.title, parsed.season, episode, parsed.descriptors>>]

\* emgo-gemini-series.js processFile lines 185-192 (':' removed)
geminiShowTitle(s) == ReplaceChar(s.title, ":", << >>)

geminiSeasonFolder(s, parsed) ==
    Dir(geminiShowTitle(s), SplitHead(s.date), ParseIntStr(parsed.season))

geminiDestPath(s, parsed, episode) ==
    [folder |-> <<geminiShowTitle(s), SplitHead(s.date)>>, seasonDir |-> ParseIntStr(parsed.season),
     file |-> <<geminiShowTitle(s), parsed.season, episode>>]

\* The variant's view of a file: Null when the file is skipped unparsed.
Parsed(v, f) ==
    CASE v = "movies" ->
           LET p == parseFileNameMovies(f) IN
           IF p.rawTitle = << >> \/ Len(p.rawTitle) < 2 THEN Null
           ELSE [kind |-> "parsed", rawTitle |-> p.rawTitle, year |-> p.year,
                 season |-> "", episodes |-> <<"">>, descriptors |-> p.descriptors]
      [] v = "series" ->
           LET p == parsedSeries(f) IN
           [kind |-> "parsed", rawTitle |-> p.rawTitle, year |-> NoYear,
            season |-> p.season, episodes |-> p.episodes, descriptors |-> p.descriptors]
      [] v = "gemini" ->
           LET p == parseFileNameGemini(f) IN
           IF p = Null \/ p.rawTitle = << >> THEN Null
           ELSE [kind |-> "parsed", rawTitle |-> p.rawTitle, year |-> NoYear,
                 season |-> p.season, episodes |-> p.episodes, descriptors |-> ""]

CacheKey(v, q, y) == IF v = "movies" THEN MovieKey(q, y) ELSE SeriesKey(q)

DestFolder(v, s, parsed) ==
    CASE v = "movies" -> movieFolder(s)
      [] v = "series" -> seriesBaseFolder(s, parsed)
      [] v = "gemini" -> geminiSeasonFolder(s, parsed)

DestFile(v, s, parsed, episode) ==
    CASE v = "movies" -> movieDestFile(s, parsed)
      [] v = "series" -> seriesDestFile(s, parsed, episode)
      [] v = "gemini" -> geminiDestPath(s, parsed, episode)

\* const DELAY = parseInt(options.delay, 10), at the option's default
DELAY_MOVIES == 2000
DELAY_SERIES == 1000
JITTER == 2000

Delay(v) == IF v = "movies" THEN DELAY_MOVIES ELSE DELAY_SERIES

\* ------------------------------------------------------------------ state
VARIABLES
    variant,      \* which script runs
    dryRun,       \* DRY_RUN
    files,        \* the enumeration findVideoFiles returned
    run,          \* number of the current process run
    pc,           \* position of the single control flow
    idx,          \* index of the file the loop of main is at
    query,        \* the title the resolver is asking for
    show,         \* the record the resolver returned (movie / show)
    epIdx,        \* index in the episode loop
    sleepMs,      \* duration of the sleep in progress, 0 when none
    tmdbCache,    \* metadata cache in memory
    linkCache,    \* link cache in memory
    metaDisk,     \* .tmdb-movie-cache.json
    linkDisk,     \* .symlinked-movies.json / .symlinked-series.json
    dirs,         \* directories under the destination root
    links,        \* symlinks under the destination root
    pAns,         \* the primary provider's answer per request, once given
    sAns,         \* the secondary provider's answer per request, once given
    rateLimited,  \* number of 429 responses given so far
    faults,       \* number of filesystem faults so far (failed calls, deletions)
    netCall,      \* a provider request was issued for the current file
    returned,     \* history: record returned per (title, year) in this run
    created,      \* history: links created by this run
    notFound,     \* history: (title, year) whose last resolution found nothing
    snap,         \* history: destination tree and cache files at run start
    hist,         \* history: flags about the previous and the current run
    arg,          \* input of the pure function under check (Null in a run)
    res           \* its result, once applied

vars == <<variant, dryRun, files, run, pc, idx, query, show, epIdx, sleepMs,
          tmdbCache, linkCache, metaDisk, linkDisk, dirs, links, pAns, sAns,
          rateLimited, faults, netCall, returned, created, notFound, snap, hist,
          arg, res>>

config == <<variant, dryRun, files>>
perFile == <<query, show, epIdx, sleepMs, netCall>>
caches == <<tmdbCache, linkCache, metaDisk, linkDisk>>
tree == <<dirs, links>>
providers == <<pAns, sAns, rateLimited>>
environment == <<providers, faults>>
history == <<returned, created, notFound, snap, hist>>
pure == <<arg, res>>

\* Mutant: only real directories count as existing.
pathExists_DirsOnly(p) == p \in dirs

\* fs.pathExists follows symlinks; the source files exist throughout.
pathExists(p) == p \in dirs \/ \E l \in links : l.path = p

File == files[idx]
Cur == Parsed(variant, File)
Episode == Cur.episodes[epIdx]
Dest == DestFile(variant, show, Cur, Episode)

\* Mutant: the link cache is not consulted.
LinkCacheHit_Never(base) == FALSE

\* Mutant: an entry counts as a hit without looking at its destination.
LinkCacheHit_NoExistsCheck(base) == Truthy(Get(linkCache, base))

\* linkCache[fileName] && await fs.pathExists(linkCache[fileName])
LinkCacheHit(base) ==
    Truthy(Get(linkCache, base)) /\ pathExists(Get(linkCache, base))

\* A filesystem call succeeds (ok) or fails; a failure is one more fault.
Fault(ok) ==
    /\ ~ok => faults < MaxFaults
    /\ faults' = IF ok THEN faults ELSE faults + 1

\* The installation before the first run: no cache file, an empty
\* destination, nothing asked of the providers yet.
Idle ==
    /\ run = 1
    /\ pc = "start"
    /\ idx = 0
    /\ query = << >>
    /\ show = Null
    /\ epIdx = 0
    /\ sleepMs = 0
    /\ tmdbCache = EmptyObject
    /\ linkCache = EmptyObject
    /\ metaDisk = EmptyObject
    /\ linkDisk = EmptyObject
    /\ dirs = {}
    /\ links = {}
    /\ pAns = EmptyObject
    /\ sAns = EmptyObject
    /\ rateLimited = 0
    /\ faults = 0
    /\ netCall = FALSE
    /\ returned = EmptyObject
    /\ created = {}
    /\ notFound = {}
    /\ snap = [dirs |-> {}, links |-> {}, metaDisk |-> EmptyObject, linkDisk |-> EmptyObject]
    /\ hist = [prevDone |-> FALSE, prevLimited |-> FALSE, prevClean |-> FALSE,
               envRemoved |-> FALSE,
               fsError |-> FALSE, attempted |-> FALSE, limited |-> FALSE,
               owed |-> FALSE]

Init ==
    /\ variant \in Variants
    /\ dryRun \in BOOLEAN
    /\ files \in {Batch(o) : o \in 1..Len(FileShapes)}
    /\ Idle
    /\ arg = Null
    /\ res = Null

\* ------------------------------------------------------------------ main
\* main up to the loop: --clear-cache removes CACHE_FILE (the metadata cache
\* in emgo-movies.js, the link cache in the series scripts), then the
\* caches are loaded.
Main(clearCache) ==
    /\ pc = "start"
    /\ LET md == IF clearCache /\ variant = "movies" THEN EmptyObject ELSE metaDisk
           ld == IF clearCache /\ variant # "movies" THEN EmptyObject ELSE linkDisk
       IN /\ metaDisk' = md
          /\ linkDisk' = ld
          /\ tmdbCache' = IF variant = "movies" THEN md ELSE EmptyObject
          /\ linkCache' = ld
          /\ snap' = [dirs |-> dirs, links |-> links, metaDisk |-> md, linkDisk |-> ld]
    /\ pc' = "file"
    /\ idx' = 1
    /\ UNCHANGED <<pure, config, run, perFile, tree, environment, returned, created, notFound,
                   hist>>

\* Mutant: the loop goes on without awaiting the call it made.
NextFile_NoAwait ==
    /\ pc' = "file"
    /\ idx' = idx + 1
    /\ UNCHANGED <<query, show, epIdx, sleepMs, netCall>>

\* return from createSymlink / processFile to the loop of main
NextFile ==
    /\ pc' = "file"
    /\ idx' = idx + 1
    /\ query' = << >>
    /\ show' = Null
    /\ epIdx' = 0
    /\ sleepMs' = 0
    /\ netCall' = FALSE

\* ---------------------------------------------------------- the providers
\* The year parameter of a primary search: the file's year token in
\* fetchMovie; the year found in the title by fetchSeriesWithFallback (the
\* titles of the model carry none); no year in fetchFromTMDB.
YearParam == IF variant = "movies" THEN Cur.year ELSE NoYear

Found(a) == a.kind = "results" /\ Len(a.results) > 0

Miss == [kind |-> "miss"]

\* The answers the primary provider can give to the request in flight.  A
\* request that was answered with results before gets the same results; one
\* that found nothing before finds nothing again (an error or an empty
\* list, errors being transient).
PrimaryChoices ==
    LET known == Get(pAns, <<query, YearParam>>) IN
    CASE known = Undefined -> PrimaryAnswers
      [] known = Miss -> {a \in PrimaryAnswers : ~Found(a)}
      [] OTHER -> {known}

SecondaryChoices ==
    LET known == Get(sAns, <<query, YearParam>>) IN
    CASE known = Undefined -> SecondaryAnswers
      [] known = Miss -> {a \in SecondaryAnswers : a.kind # "true"}
      [] OTHER -> {known}

\* The resolution of the current file ended with no record / wrote a record
\* under key k (history).
NoteNotFound == notFound' = notFound \cup {<<Cur.rawTitle, Cur.year>>}

NoteCached(k) ==
    notFound' = {t \in notFound : CacheKey(variant, t[1], t[2]) # k}

\* ------------------------------------------------------------- fetchMovie
\* fetchMovie(q, year, tmdbCache) from its entry to its first await: the
\* cache check, then the primary request.
fetchMovie(q) ==
    /\ query' = q
    /\ LET hit == Get(tmdbCache, MovieKey(q, Cur.year)) IN
       IF CacheMiss(hit)
       THEN /\ pc' = "primary"
            /\ netCall' = TRUE
            /\ show' = Null
            /\ UNCHANGED returned
       ELSE /\ show' = hit
            /\ pc' = "ensure"
            /\ returned' = Put(returned, <<Cur.rawTitle, Cur.year>>, hit)
            /\ UNCHANGED netCall

\* createSymlink / processFile from its entry to its first await on a
\* provider (or to its return).
CreateSymlinkEnter ==
    /\ pc = "file"
    /\ idx <= Len(files)
    /\ UNCHANGED <<pure, config, run, caches, tree, environment, created, notFound, snap,
                   hist>>
    /\ IF LinkCacheHit(File.base) \/ Cur = Null
       THEN NextFile /\ UNCHANGED returned
       ELSE CASE variant = "movies" ->
                   /\ fetchMovie(Cur.rawTitle)
                   /\ UNCHANGED <<idx, epIdx, sleepMs>>
              [] variant = "series" ->
                   \* let show = tmdbCache[cacheKey]; if (!show) { ... }
                   LET hit == Get(tmdbCache, SeriesKey(Cur.rawTitle)) IN
                   /\ query' = Cur.rawTitle
                   /\ UNCHANGED <<idx, epIdx, sleepMs, returned>>
                   /\ IF CacheMiss(hit)
                      THEN pc' = "primary" /\ show' = Null /\ netCall' = TRUE
                      ELSE pc' = "ensure" /\ show' = hit /\ netCall' = FALSE
              [] variant = "gemini" ->
                   \* if (!tmdbCache[cacheKey]) { ... fetchFromTMDB ... }
                   \* const show = tmdbCache[cacheKey]; if (!show) return
                   LET hit == Get(tmdbCache, SeriesKey(Cur.rawTitle)) IN
                   /\ UNCHANGED returned
                   /\ IF CacheMiss(hit)
                      THEN /\ pc' = "primary"
                           /\ query' = Cur.rawTitle
                           /\ show' = Null
                           /\ netCall' = TRUE
                           /\ UNCHANGED <<idx, epIdx, sleepMs>>
                      ELSE IF Truthy(hit)
                           THEN /\ pc' = "link"
                                /\ query' = Cur.rawTitle
                                /\ epIdx' = 1
                                /\ show' = hit
                                /\ netCall' = FALSE
                                /\ UNCHANGED <<idx, sleepMs>>
                           ELSE NextFile

\* Mutant: fetchMovie treats a 429 as any other error.
AfterRateLimit_AsError(v, p) ==
    CASE v = "movies" -> "secondary"
      [] v = "series" -> IF p = "primary" THEN "secondary" ELSE "file"
      [] v = "gemini" -> "sleep"

\* Where a 429 of the primary provider leads: fetchMovie sleeps 10 s and
\* calls itself again; fetchSeriesFromTMDB and fetchFromTMDB have no case
\* for it and treat it as any error.
AfterRateLimit(v, p) ==
    CASE v = "movies" -> "backoff"
      [] v = "series" -> IF p = "primary" THEN "secondary" ELSE "file"
      [] v = "gemini" -> "sleep"

\* The primary provider answers 429.
PrimaryRateLimited ==
    /\ pc \in {"primary", "primary2"}
    /\ rateLimited < MaxRateLimited
    /\ rateLimited' = rateLimited + 1
    /\ hist' = [hist EXCEPT !.limited = @ \/ variant # "movies", !.owed = TRUE]
    /\ UNCHANGED <<pure, config, run, linkCache, metaDisk, linkDisk, tree, pAns, sAns,
                   faults, returned, created, snap>>
    /\ CASE AfterRateLimit(variant, pc) = "backoff" ->
              /\ pc' = "backoff"
              /\ sleepMs' = RATE_LIMIT_BACKOFF
              /\ UNCHANGED <<idx, query, show, epIdx, netCall, tmdbCache, notFound>>
         [] AfterRateLimit(variant, pc) = "secondary" ->
              /\ pc' = "secondary"
              /\ UNCHANGED <<idx, query, show, epIdx, sleepMs, netCall, tmdbCache, notFound>>
         [] AfterRateLimit(variant, pc) = "file" ->
              NextFile /\ NoteNotFound /\ UNCHANGED tmdbCache
         [] AfterRateLimit(variant, pc) = "sleep" ->
              /\ tmdbCache' = Put(tmdbCache, SeriesKey(query), Null)
              /\ pc' = "sleep"
              /\ sleepMs' = Delay(variant)
              /\ UNCHANGED <<idx, query, show, epIdx, netCall, notFound>>

\* The primary provider answers the search (an error or a result list).
PrimaryResponse ==
    /\ pc \in {"primary", "primary2"}
    /\ \E a \in PrimaryChoices :
         /\ pAns' = Put(pAns, <<query, YearParam>>, IF Found(a) THEN a ELSE Miss)
         /\ CASE variant = "movies" ->
                   IF Found(a)
                   THEN \* tmdbCache[key] = best; await saveJSON(...)
                        /\ show' = BestMovie(a.results, Cur.year)
                        /\ tmdbCache' = Put(tmdbCache, MovieKey(query, Cur.year),
                                            BestMovie(a.results, Cur.year))
                        /\ NoteCached(MovieKey(query, Cur.year))
                        /\ pc' = "savemeta"
                        /\ UNCHANGED <<idx, query, epIdx, sleepMs, netCall>>
                   ELSE \* falls through to the OMDb request
                        /\ pc' = "secondary"
                        /\ UNCHANGED <<idx, query, show, epIdx, sleepMs, netCall,
                                       tmdbCache, notFound>>
              [] variant = "series" ->
                   IF Found(a)
                   THEN \* tmdbCache[cacheKey] = show; await sleep(DELAY)
                        /\ show' = BestSeries(a.results, YearParam)
                        /\ tmdbCache' = Put(tmdbCache, SeriesKey(Cur.rawTitle),
                                            BestSeries(a.results, YearParam))
                        /\ NoteCached(SeriesKey(Cur.rawTitle))
                        /\ pc' = "sleep"
                        /\ sleepMs' = Delay(variant)
                        /\ UNCHANGED <<idx, query, epIdx, netCall>>
                   ELSE IF pc = "primary"
                        THEN /\ pc' = "secondary"
                             /\ UNCHANGED <<idx, query, show, epIdx, sleepMs, netCall,
                                            tmdbCache, notFound>>
                        ELSE NextFile /\ NoteNotFound /\ UNCHANGED tmdbCache
              [] variant = "gemini" ->
                   \* tmdbCache[cacheKey] = await fetchFromTMDB(rawTitle)
                   /\ tmdbCache' = Put(tmdbCache, SeriesKey(query),
                                       IF a.kind = "results" THEN FirstResult(a.results)
                                       ELSE Null)
                   /\ IF Found(a) THEN NoteCached(SeriesKey(query)) ELSE UNCHANGED notFound
                   /\ pc' = "sleep"
                   /\ sleepMs' = Delay(variant)
                   /\ UNCHANGED <<idx, query, show, epIdx, netCall>>
    /\ hist' = [hist EXCEPT !.owed = TRUE]
    /\ UNCHANGED <<pure, config, run, linkCache, metaDisk, linkDisk, tree, sAns,
                   rateLimited, faults, returned, created, snap>>

\* saveJSON(CACHE_FILE, tmdbCache), which swallows a write error, and the
\* return of fetchMovie with the record.
SaveMeta ==
    /\ pc = "savemeta"
    /\ \E ok \in BOOLEAN :
         /\ Fault(ok)
         /\ metaDisk' = IF ok THEN tmdbCache ELSE metaDisk
    /\ pc' = "ensure"
    /\ returned' = Put(returned, <<Cur.rawTitle, Cur.year>>, show)
    /\ UNCHANGED <<pure, config, run, idx, query, show, epIdx, sleepMs, netCall, tmdbCache,
                   linkCache, linkDisk, tree, providers, created, notFound, snap, hist>>

\* The 10 s sleep ends: return fetchMovie(query, year, tmdbCache)
BackoffDone ==
    /\ pc = "backoff"
    /\ fetchMovie(query)
    /\ sleepMs' = 0
    /\ UNCHANGED <<pure, config, run, idx, epIdx, caches, tree, environment, created,
                   notFound, snap, hist>>

\* The secondary provider answers.  fetchMovie calls itself with the
\* canonical title; fetchSeriesWithFallback asks the primary once more.
SecondaryResponse ==
    /\ pc = "secondary"
    /\ \E a \in SecondaryChoices :
         /\ sAns' = Put(sAns, <<query, YearParam>>, IF a.kind = "true" THEN a ELSE Miss)
         /\ IF a.kind = "true"
            THEN /\ IF variant = "movies"
                    THEN fetchMovie(a.Title)
                    ELSE /\ query' = a.Title
                         /\ pc' = "primary2"
                         /\ UNCHANGED <<show, netCall, returned>>
                 /\ UNCHANGED <<idx, epIdx, sleepMs, notFound>>
            ELSE NextFile /\ NoteNotFound /\ UNCHANGED returned
    /\ hist' = [hist EXCEPT !.owed = TRUE]
    /\ UNCHANGED <<pure, config, run, caches, tree, pAns, rateLimited, faults, created,
                   snap>>

\* sleep(DELAY) after a lookup in the series scripts ends.
SleepDone ==
    /\ pc = "sleep"
    /\ hist' = [hist EXCEPT !.owed = FALSE]
    /\ UNCHANGED <<pure, config, run, caches, tree, environment, returned, created,
                   snap>>
    /\ CASE variant = "series" ->
              /\ pc' = "ensure"
              /\ sleepMs' = 0
              /\ UNCHANGED <<idx, query, show, epIdx, netCall, notFound>>
         [] variant = "gemini" ->
              \* const show = tmdbCache[cacheKey]; if (!show) return
              LET s == Get(tmdbCache, SeriesKey(Cur.rawTitle)) IN
              IF Truthy(s)
              THEN /\ show' = s
                   /\ pc' = "link"
                   /\ epIdx' = 1
                   /\ sleepMs' = 0
                   /\ UNCHANGED <<idx, query, netCall, notFound>>
              ELSE NextFile /\ NoteNotFound

\* ------------------------------------------------------- materialization
\* The source path of the current file: its place in the enumeration stands
\* for its directory.
SourcePath == [dir |-> idx, base |-> File.base]

\* fs.ensureDir creates the folder and its missing ancestors.
WithAncestors(d) == {d, Dir(d.folder[1], d.folder[2], "")}

\* await fs.ensureDir(folder), outside any try block in emgo-movies.js and
\* emgo-series.js: its rejection leaves createSymlink and the loop of main.
EnsureDir ==
    /\ pc = "ensure"
    /\ \E ok \in BOOLEAN :
         /\ (DestFolder(variant, show, Cur) \in dirs) => ok
         /\ Fault(ok)
         /\ IF ok
            THEN /\ dirs' = dirs \cup WithAncestors(DestFolder(variant, show, Cur))
                 /\ pc' = "link"
                 /\ epIdx' = 1
                 /\ UNCHANGED hist
            ELSE /\ pc' = "aborted"
                 /\ hist' = [hist EXCEPT !.fsError = TRUE]
                 /\ UNCHANGED <<dirs, epIdx>>
    /\ sleepMs' = 0
    /\ UNCHANGED <<pure, config, run, idx, query, show, netCall, caches, links, providers,
                   returned, created, notFound, snap>>

\* End of the episode loop (series scripts).
EpisodesDone ==
    /\ pc = "link"
    /\ epIdx > Len(Cur.episodes)
    /\ NextFile
    /\ UNCHANGED <<pure, config, run, caches, tree, environment, history>>

\* if (await fs.pathExists(destFile)): return in emgo-movies.js, continue in
\* the series scripts.
DestExists ==
    /\ pc = "link"
    /\ epIdx <= Len(Cur.episodes)
    /\ pathExists(Dest)
    /\ IF variant = "movies"
       THEN NextFile
       ELSE /\ epIdx' = epIdx + 1
            /\ UNCHANGED <<pc, idx, query, show, sleepMs, netCall>>
    /\ UNCHANGED <<pure, config, run, caches, tree, environment, history>>

\* if (DRY_RUN) console.log(...)
DryRunLog ==
    /\ pc = "link"
    /\ epIdx <= Len(Cur.episodes)
    /\ ~pathExists(Dest)
    /\ dryRun
    /\ IF variant = "movies"
       THEN /\ pc' = "delay"
            /\ \E jitter \in {0, JITTER - 1} : sleepMs' = Delay(variant) + jitter
            /\ UNCHANGED <<idx, query, show, epIdx, netCall>>
       ELSE /\ epIdx' = epIdx + 1
            /\ UNCHANGED <<pc, idx, query, show, sleepMs, netCall>>
    /\ UNCHANGED <<pure, config, run, caches, tree, environment, history>>

\* Mutant: the entry is written to the link cache whether fs.symlink
\* succeeded or not.
Symlink_CacheOnFailure ==
    /\ pc = "link"
    /\ epIdx <= Len(Cur.episodes)
    /\ ~pathExists(Dest)
    /\ ~dryRun
    /\ \E okDir \in BOOLEAN, ok \in BOOLEAN :
         /\ (variant # "gemini" \/ DestFolder(variant, show, Cur) \in dirs) => okDir
         /\ ~okDir => ~ok
         /\ Fault(ok)
         /\ dirs' = IF variant = "gemini" /\ okDir
                    THEN dirs \cup WithAncestors(DestFolder(variant, show, Cur))
                    ELSE dirs
         /\ hist' = [hist EXCEPT !.attempted = TRUE, !.fsError = @ \/ ~ok]
         /\ linkCache' = Put(linkCache, File.base, Dest)
         /\ IF ok
            THEN /\ links' = links \cup {[path |-> Dest, target |-> SourcePath]}
                 /\ created' = created \cup {[base |-> File.base, dest |-> Dest, at |-> idx]}
                 /\ IF variant = "gemini"
                    THEN /\ epIdx' = epIdx + 1
                         /\ UNCHANGED <<pc, sleepMs>>
                    ELSE /\ pc' = "savelink"
                         /\ UNCHANGED <<epIdx, sleepMs>>
            ELSE /\ UNCHANGED <<links, created>>
                 /\ IF variant = "movies"
                    THEN /\ pc' = "delay"
                         /\ \E jitter \in {0, JITTER - 1} : sleepMs' = Delay(variant) + jitter
                         /\ UNCHANGED epIdx
                    ELSE /\ epIdx' = epIdx + 1
                         /\ UNCHANGED <<pc, sleepMs>>
    /\ UNCHANGED <<pure, config, run, idx, query, show, netCall, tmdbCache, metaDisk,
                   linkDisk, providers, returned, notFound, snap>>

\* try { await fs.symlink(filePath, destFile); linkCache[fileName] = destFile;
\* ... } catch (e) { console.error(...) }.  In emgo-gemini-series.js the try
\* block starts with ensureDir(seasonFolder) and the cache is not saved here.
Symlink ==
    /\ pc = "link"
    /\ epIdx <= Len(Cur.episodes)
    /\ ~pathExists(Dest)
    /\ ~dryRun
    /\ \E okDir \in BOOLEAN, ok \in BOOLEAN :
         /\ (variant # "gemini" \/ DestFolder(variant, show, Cur) \in dirs) => okDir
         /\ ~okDir => ~ok
         /\ Fault(ok)
         /\ dirs' = IF variant = "gemini" /\ okDir
                    THEN dirs \cup WithAncestors(DestFolder(variant, show, Cur))
                    ELSE dirs
         /\ hist' = [hist EXCEPT !.attempted = TRUE, !.fsError = @ \/ ~ok]
         /\ IF ok
            THEN /\ links' = links \cup {[path |-> Dest, target |-> SourcePath]}
                 /\ linkCache' = Put(linkCache, File.base, Dest)
                 /\ created' = created \cup {[base |-> File.base, dest |-> Dest, at |-> idx]}
                 /\ IF variant = "gemini"
                    THEN /\ epIdx' = epIdx + 1
                         /\ UNCHANGED <<pc, sleepMs>>
                    ELSE /\ pc' = "savelink"
                         /\ UNCHANGED <<epIdx, sleepMs>>
            ELSE /\ UNCHANGED <<links, linkCache, created>>
                 /\ IF variant = "movies"
                    THEN /\ pc' = "delay"
                         /\ \E jitter \in {0, JITTER - 1} : sleepMs' = Delay(variant) + jitter
                         /\ UNCHANGED epIdx
                    ELSE /\ epIdx' = epIdx + 1
                         /\ UNCHANGED <<pc, sleepMs>>
    /\ UNCHANGED <<pure, config, run, idx, query, show, netCall, tmdbCache, metaDisk,
                   linkDisk, providers, returned, notFound, snap>>

\* await saveJSON(SYMLINK_FILE, linkCache) / await saveCache(symlinkCache):
\* a write error is logged and swallowed.
SaveLink ==
    /\ pc = "savelink"
    /\ \E ok \in BOOLEAN :
         /\ Fault(ok)
         /\ linkDisk' = IF ok THEN linkCache ELSE linkDisk
    /\ IF variant = "movies"
       THEN /\ pc' = "delay"
            /\ \E jitter \in {0, JITTER - 1} : sleepMs' = Delay(variant) + jitter
            /\ UNCHANGED epIdx
       ELSE /\ pc' = "link"
            /\ epIdx' = epIdx + 1
            /\ UNCHANGED sleepMs
    /\ UNCHANGED <<pure, config, run, idx, query, show, netCall, tmdbCache, linkCache,
                   metaDisk, tree, providers, history>>

\* await randomDelay() ends and createSymlink returns (emgo-movies.js).
DelayDone ==
    /\ pc = "delay"
    /\ NextFile
    /\ hist' = [hist EXCEPT !.owed = FALSE]
    /\ UNCHANGED <<pure, config, run, caches, tree, environment, returned, created,
                   notFound, snap>>

\* The loop of main is over.  emgo-gemini-series.js writes the link cache
\* here, once, unless DRY_RUN.
Finish ==
    /\ pc = "file"
    /\ idx > Len(files)
    /\ pc' = "done"
    /\ IF variant = "gemini" /\ ~dryRun
       THEN \E ok \in BOOLEAN :
              /\ Fault(ok)
              /\ linkDisk' = IF ok THEN linkCache ELSE linkDisk
       ELSE UNCHANGED <<linkDisk, faults>>
    /\ UNCHANGED <<pure, config, run, idx, perFile, tmdbCache, linkCache, metaDisk, tree,
                   providers, history>>

\* ------------------------------------------------------------ environment
\* The script is started again: a new process, with the files on disk.
Restart ==
    /\ pc \in {"done", "aborted"}
    /\ run < MaxRuns
    /\ run' = run + 1
    /\ pc' = "start"
    /\ idx' = 0
    /\ query' = << >>
    /\ show' = Null
    /\ epIdx' = 0
    /\ sleepMs' = 0
    /\ netCall' = FALSE
    /\ tmdbCache' = EmptyObject
    /\ linkCache' = EmptyObject
    /\ returned' = EmptyObject
    /\ created' = {}
    /\ hist' = [prevDone |-> (pc = "done"),
                prevLimited |-> hist.limited,
                prevClean |-> (/\ pc = "done" /\ ~hist.fsError /\ ~hist.limited
                               /\ ~hist.envRemoved
                               /\ (run = 1 \/ hist.prevClean)),
                envRemoved |-> FALSE, fsError |-> FALSE, attempted |-> FALSE,
                limited |-> FALSE, owed |-> FALSE]
    /\ UNCHANGED <<pure, config, metaDisk, linkDisk, tree, environment, notFound, snap>>

\* Between two runs somebody deletes a link of the destination tree.
EnvRemoveLink ==
    /\ pc = "start"
    /\ run > 1
    /\ Fault(FALSE)
    /\ \E l \in links : links' = links \ {l}
    /\ hist' = [hist EXCEPT !.envRemoved = TRUE]
    /\ UNCHANGED <<pure, config, run, pc, idx, perFile, caches, dirs, providers, returned,
                   created, notFound, snap>>

\* Between two runs somebody deletes the link-cache file.
EnvRemoveLinkCache ==
    /\ pc = "start"
    /\ run > 1
    /\ linkDisk # EmptyObject
    /\ Fault(FALSE)
    /\ linkDisk' = EmptyObject
    /\ UNCHANGED <<pure, config, run, pc, idx, perFile, tmdbCache, linkCache, metaDisk, tree,
                   providers, history>>

Next ==
    \/ \E clearCache \in BOOLEAN : Main(clearCache)
    \/ CreateSymlinkEnter
    \/ PrimaryRateLimited
    \/ PrimaryResponse
    \/ SaveMeta
    \/ BackoffDone
    \/ SecondaryResponse
    \/ SleepDone
    \/ EnsureDir
    \/ EpisodesDone
    \/ DestExists
    \/ DryRunLog
    \/ Symlink
    \/ SaveLink
    \/ DelayDone
    \/ Finish
    \/ Restart
    \/ EnvRemoveLink
    \/ EnvRemoveLinkCache

Spec == Init /\ [][Next]_vars

\* The same scripts over a source tree that holds a season-0 file.
InitSpecials ==
    /\ variant \in Variants
    /\ dryRun \in BOOLEAN
    /\ files \in {SpecialBatch(o) : o \in 1..Len(SpecialShapes)}
    /\ Idle
    /\ arg = Null
    /\ res = Null

SpecSpecials == InitSpecials /\ [][Next]_vars

\* ------------------------------- the season/episode patterns, by character
\* A name is the sequence of the characters of path.parse(filename).name.
Digits == <<"0", "1", "2", "3", "4", "5", "6", "7", "8", "9">>

IsDigit(c) == \E d \in DOMAIN Digits : Digits[d] = c

\* The character at a position, "" past the ends.
At(s, i) == IF i \in DOMAIN s THEN s[i] ELSE ""

\* \d{2} at position i
TwoDigits(s, i) == IsDigit(At(s, i)) /\ IsDigit(At(s, i + 1))

\* parseInt of one digit and of the two digits at position i
Num(c) == (CHOOSE d \in DOMAIN Digits : Digits[d] = c) - 1

Int2(s, i) == 10 * Num(s[i]) + Num(s[i + 1])

\* The letters of the patterns under the flag i.
IsS(c) == c \in {"S", "s"}
IsE(c) == c \in {"E", "e"}
IsX(c) == c \in {"X", "x"}

\* String(n)
RECURSIVE Str(_)
Str(n) == IF n < 10 THEN <<Digits[n + 1]>> ELSE Str(n \div 10) \o <<Digits[(n % 10) + 1]>>

\* String(n).padStart(2, '0')
PadStart2(n) == IF n < 10 THEN <<"0">> \o Str(n) ELSE Str(n)

\* name.replace(/[\._]/g, ' ')
DotsToSpaces(s) == ReplaceChar(ReplaceChar(s, ".", <<" ">>), "_", <<" ">>)

\* for (ep = a; ep <= b; ep++) episodes.push(ep)
Interval(a, b) == IF b < a THEN << >> ELSE [k \in 1..(b - a + 1) |-> a + k - 1]

\* Array.from(new Set(q)): the distinct elements in order of first appearance
RECURSIVE Distinct(_)
Distinct(q) ==
    IF q = << >> THEN << >>
    ELSE LET d == Distinct(SubSeq(q, 1, Len(q) - 1))
             x == q[Len(q)]
         IN  IF \E k \in DOMAIN d : d[k] = x THEN d ELSE Append(d, x)

\* A group that did not take part in the match (undefined).
NoGroup == -1

NoMatch == Null

\* \d{w} at position i, and its parseInt
DigitsAt(s, i, w) == \A k \in 0..(w - 1) : IsDigit(At(s, i + k))

IntAt(s, i, w) == IF w = 2 THEN Int2(s, i) ELSE Num(s[i])

\* emgo-series.js, line 71:
\* /S(?<season>\d{1,2})E(?<start>\d{2})(?:E(?<extra>\d{2}))*?(?:-E?(?<end>\d{2}))?/i
\* S, a season of w digits, E and two digits at position i
SeasonEpisodeAt(s, i, w) ==
    /\ IsS(At(s, i))
    /\ DigitsAt(s, i + 1, w)
    /\ IsE(At(s, i + w + 1))
    /\ TwoDigits(s, i + w + 2)

\* (?:-E?(?<end>\d{2}))? at position j
SeriesEnd1(s, j) ==
    IF At(s, j) = "-" /\ IsE(At(s, j + 1)) /\ TwoDigits(s, j + 2) THEN Int2(s, j + 2)
    ELSE IF At(s, j) = "-" /\ TwoDigits(s, j + 1) THEN Int2(s, j + 1)
    ELSE NoGroup

\* The groups of the first pattern.  The lazy group of extras takes none,
\* because what follows it can match the empty string.
SeriesGroups1(s, i, w) ==
    [kind |-> "match", index |-> i,
     season |-> IntAt(s, i + 1, w),
     start |-> Int2(s, i + w + 2),
     extra |-> NoGroup,
     end |-> SeriesEnd1(s, i + w + 4)]

\* \d{1,2} takes two digits when the rest then matches.
SeriesRx1At(s, i) ==
    IF SeasonEpisodeAt(s, i, 2) THEN SeriesGroups1(s, i, 2)
    ELSE IF SeasonEpisodeAt(s, i, 1) THEN SeriesGroups1(s, i, 1)
    ELSE NoMatch

\* emgo-series.js, line 72: /(?<season>\d{1,2})x(?<start>\d{2})(?:x(?<extra>\d{2}))?/i
\* a season of w digits, x and two digits at position i
SeasonXEpisodeAt(s, i, w) ==
    /\ DigitsAt(s, i, w)
    /\ IsX(At(s, i + w))
    /\ TwoDigits(s, i + w + 1)

SeriesGroups2(s, i, w) ==
    [kind |-> "match", index |-> i,
     season |-> IntAt(s, i, w),
     start |-> Int2(s, i + w + 1),
     extra |-> IF IsX(At(s, i + w + 3)) /\ TwoDigits(s, i + w + 4)
               THEN Int2(s, i + w + 4) ELSE NoGroup,
     end |-> NoGroup]

SeriesRx2At(s, i) ==
    IF SeasonXEpisodeAt(s, i, 2) THEN SeriesGroups2(s, i, 2)
    ELSE IF SeasonXEpisodeAt(s, i, 1) THEN SeriesGroups2(s, i, 1)
    ELSE NoMatch

\* emgo-series.js, line 73: /(?<season>\d)(?<start>\d{2})(?:[-_ ](?<end>\d{2}))?/i
SeriesRx3At(s, i) ==
    IF ~DigitsAt(s, i, 3) THEN NoMatch
    ELSE [kind |-> "match", index |-> i,
          season |-> Num(s[i]),
          start |-> Int2(s, i + 1),
          extra |-> NoGroup,
          end |-> IF At(s, i + 3) \in {"-", "_", " "} /\ TwoDigits(s, i + 4)
                  THEN Int2(s, i + 4) ELSE NoGroup]

\* The match of pattern rx of the list at position i.
SeriesRxAt(rx, s, i) ==
    IF rx = 1 THEN SeriesRx1At(s, i)
    ELSE IF rx = 2 THEN SeriesRx2At(s, i)
    ELSE SeriesRx3At(s, i)

\* name.match(regex): the match at the leftmost position, from i on
RECURSIVE SeriesLeftmost(_, _, _)
SeriesLeftmost(rx, s, i) ==
    IF i > Len(s) THEN NoMatch
    ELSE IF SeriesRxAt(rx, s, i) # NoMatch THEN SeriesRxAt(rx, s, i)
    ELSE SeriesLeftmost(rx, s, i + 1)

\* for (const regex of regexes) { match = name.match(regex); if (match) break; }
\* from pattern rx on
RECURSIVE SeriesMatchFrom(_, _)
SeriesMatchFrom(rx, s) ==
    IF rx > 3 THEN NoMatch
    ELSE IF SeriesLeftmost(rx, s, 1) # NoMatch THEN SeriesLeftmost(rx, s, 1)
    ELSE SeriesMatchFrom(rx + 1, s)

SeriesMatch(s) == SeriesMatchFrom(1, s)

\* [...name.matchAll(/E(\d{2})/gi)].map(m => parseInt(m[1])), from position i
RECURSIVE MatchAllE(_, _)
MatchAllE(s, i) ==
    IF i > Len(s) THEN << >>
    ELSE IF IsE(s[i]) /\ TwoDigits(s, i + 1)
         THEN <<Int2(s, i + 1)>> \o MatchAllE(s, i + 3)
         ELSE MatchAllE(s, i + 1)

\* Mutant: the markers never replace the episodes of the match.
MarkersOverride_Never(extraEs) == FALSE

\* if (extraEs.length > 1)
MarkersOverride(extraEs) == Len(extraEs) > 1

\* emgo-series.js parseFileName, lines 96-118: the episodes of a match
SeriesEpisodeList(match, extraEs) ==
    IF match.end # NoGroup
    THEN IF match.end > match.start /\ match.end - match.start <= 20
         THEN Interval(match.start, match.end)
         ELSE <<match.start>>
    ELSE IF MarkersOverride(extraEs) THEN Distinct(extraEs)
         ELSE IF match.extra # NoGroup THEN <<match.start, match.extra>>
         ELSE <<match.start>>

\* episodes.map(e => String(e).padStart(2, '0'))
PadAll(episodes) == [k \in DOMAIN episodes |-> PadStart2(episodes[k])]

\* emgo-series.js parseFileName, lines 85-121: null with no match or with
\* season 0, else the season and the episodes
SeriesResult(match, extraEs) ==
    IF match = NoMatch THEN Null
    ELSE IF match.season = 0 THEN Null
    ELSE [kind |-> "parsed",
          season |-> PadStart2(match.season),
          episodes |-> PadAll(SeriesEpisodeList(match, extraEs))]

\* emgo-series.js parseFileName, lines 67-121, on the name of a file
SeriesEpisodes(filename) ==
    SeriesResult(SeriesMatch(DotsToSpaces(filename)),
                 MatchAllE(DotsToSpaces(filename), 1))

\* emgo-gemini-series.js, line 34: /S(?<season>\d{1,2})E(?<start>\d{2})(?:-?E(?<end>\d{2}))?/i
\* (?:-?E(?<end>\d{2}))? at position j
GeminiEnd1(s, j) ==
    IF At(s, j) = "-" /\ IsE(At(s, j + 1)) /\ TwoDigits(s, j + 2) THEN Int2(s, j + 2)
    ELSE IF IsE(At(s, j)) /\ TwoDigits(s, j + 1) THEN Int2(s, j + 1)
    ELSE NoGroup

GeminiGroups1(s, i, w) ==
    [kind |-> "match", index |-> i,
     season |-> IntAt(s, i + 1, w),
     start |-> Int2(s, i + w + 2),
     end |-> GeminiEnd1(s, i + w + 4)]

GeminiRx1At(s, i) ==
    IF SeasonEpisodeAt(s, i, 2) THEN GeminiGroups1(s, i, 2)
    ELSE IF SeasonEpisodeAt(s, i, 1) THEN GeminiGroups1(s, i, 1)
    ELSE NoMatch

\* emgo-gemini-series.js, line 35: /(?<season>\d{1,2})x(?<start>\d{2})(?:-?x(?<end>\d{2}))?/i
\* (?:-?x(?<end>\d{2}))? at position j
GeminiEnd2(s, j) ==
    IF At(s, j) = "-" /\ IsX(At(s, j + 1)) /\ TwoDigits(s, j + 2) THEN Int2(s, j + 2)
    ELSE IF IsX(At(s, j)) /\ TwoDigits(s, j + 1) THEN Int2(s, j + 1)
    ELSE NoGroup

GeminiGroups2(s, i, w) ==
    [kind |-> "match", index |-> i,
     season |-> IntAt(s, i, w),
     start |-> Int2(s, i + w + 1),
     end |-> GeminiEnd2(s, i + w + 3)]

GeminiRx2At(s, i) ==
    IF SeasonXEpisodeAt(s, i, 2) THEN GeminiGroups2(s, i, 2)
    ELSE IF SeasonXEpisodeAt(s, i, 1) THEN GeminiGroups2(s, i, 1)
    ELSE NoMatch

\* emgo-gemini-series.js, line 36: /(?<!\d)(?<season>\d)(?<start>\d{2})(?!\d)/i
GeminiRx3At(s, i) ==
    IF ~(/\ ~IsDigit(At(s, i - 1))
         /\ DigitsAt(s, i, 3)
         /\ ~IsDigit(At(s, i + 3))) THEN NoMatch
    ELSE [kind |-> "match", index |-> i,
          season |-> Num(s[i]),
          start |-> Int2(s, i + 1),
          end |-> NoGroup]

\* The match of pattern rx of the list at position i.
GeminiRxAt(rx, s, i) ==
    IF rx = 1 THEN GeminiRx1At(s, i)
    ELSE IF rx = 2 THEN GeminiRx2At(s, i)
    ELSE GeminiRx3At(s, i)

\* baseName.match(regex): the match at the leftmost position, from i on
RECURSIVE GeminiLeftmost(_, _, _)
GeminiLeftmost(rx, s, i) ==
    IF i > Len(s) THEN NoMatch
    ELSE IF GeminiRxAt(rx, s, i) # NoMatch THEN GeminiRxAt(rx, s, i)
    ELSE GeminiLeftmost(rx, s, i + 1)

\* for (const regex of SEASON_EPISODE_REGEX) { ...; if (match) break; }
\* from pattern rx on
RECURSIVE GeminiMatchFrom(_, _)
GeminiMatchFrom(rx, s) ==
    IF rx > 3 THEN NoMatch
    ELSE IF GeminiLeftmost(rx, s, 1) # NoMatch THEN GeminiLeftmost(rx, s, 1)
    ELSE GeminiMatchFrom(rx + 1, s)

GeminiMatch(s) == GeminiMatchFrom(1, s)

\* emgo-gemini-series.js parseFileName, lines 93-122: null with no match or
\* with season 0, else the season and the episodes
GeminiResult(match) ==
    IF match = NoMatch THEN Null
    ELSE IF match.season = 0 THEN Null
    ELSE [kind |-> "parsed",
          season |-> PadStart2(match.season),
          episodes |-> PadAll(IF match.end # NoGroup
                              THEN Interval(match.start, match.end)
                              ELSE <<match.start>>)]

\* emgo-gemini-series.js parseFileName, lines 85-123, on the name of a file
GeminiEpisodes(filename) == GeminiResult(GeminiMatch(DotsToSpaces(filename)))

\* ------------------------------------------- the pure functions, applied
\* Everything but the input and the result of the function under study.
pipeline == <<config, run, pc, idx, perFile, caches, tree, environment, history>>

\* Records a search of the primary provider can return: two of 2021 with
\* different titles, one of 1984, one with an empty date, one with no date.
R2021b == [kind |-> "rec", title |-> T_Duna, date |-> Y2021 \o <<"-", "0", "1", "-", "0", "1">>]
REmptyDate == [kind |-> "rec", title |-> T_Dune, date |-> << >>]
RNoDate == [kind |-> "rec", title |-> T_Dune]

Records == {R2021, R2021b, R1984, REmptyDate, RNoDate}

\* res.data.results with results.length > 0, in provider order
ResultLists == UNION {[1..n -> Records] : n \in 1..MaxResults}

SelectInputs ==
    {[kind |-> "select", results |-> rs, year |-> y] :
        rs \in ResultLists, y \in {NoYear, Y2021, Y1984}}

\* fetchMovie, lines 110-113: the selection on a non-empty result list
SelectMovie ==
    /\ arg.kind = "select"
    /\ res = Null
    /\ res' = [fn |-> "fetchMovie", out |-> BestMovie(arg.results, arg.year)]
    /\ UNCHANGED <<arg, pipeline>>

\* fetchSeriesFromTMDB, lines 165-170
SelectSeries ==
    /\ arg.kind = "select"
    /\ res = Null
    /\ res' = [fn |-> "fetchSeriesFromTMDB", out |-> BestSeries(arg.results, arg.year)]
    /\ UNCHANGED <<arg, pipeline>>

\* fetchFromTMDB of emgo-gemini-series.js: it takes the query only
SelectGemini ==
    /\ arg.kind = "select"
    /\ res = Null
    /\ res' = [fn |-> "fetchFromTMDB", out |-> FirstResult(arg.results)]
    /\ UNCHANGED <<arg, pipeline>>

\* The names: a title, a season/episode token of one of the forms the
\* patterns are written for, and what follows the token.
Prefix == <<"D", "u", "n", "a", ".">>

\* Episode numbers: spans of 1, 2, 19, 20 and 21 are among their differences.
Eps == {1, 2, 3, 22}

Forms == {"SE", "SEE", "SE-E", "SE-", "S00E", "NxM", "NxMx", "NxM-x", "NMM", "NMM-"}

\* The forms with a second episode number.
TwoNumberForms == {"SEE", "SE-E", "SE-", "NxMx", "NxM-x", "NMM-"}

Token(form, s, e) ==
    CASE form = "SE"    -> <<"S", "0", "1", "E">> \o PadStart2(s)
      [] form = "SEE"   -> <<"S", "0", "1", "E">> \o PadStart2(s) \o <<"E">> \o PadStart2(e)
      [] form = "SE-E"  -> <<"S", "0", "1", "E">> \o PadStart2(s) \o <<"-", "E">> \o PadStart2(e)
      [] form = "SE-"   -> <<"S", "0", "1", "E">> \o PadStart2(s) \o <<"-">> \o PadStart2(e)
      [] form = "S00E"  -> <<"S", "0", "0", "E">> \o PadStart2(s)
      [] form = "NxM"   -> <<"1", "x">> \o PadStart2(s)
      [] form = "NxMx"  -> <<"1", "x">> \o PadStart2(s) \o <<"x">> \o PadStart2(e)
      [] form = "NxM-x" -> <<"1", "x">> \o PadStart2(s) \o <<"-", "x">> \o PadStart2(e)
      [] form = "NMM"   -> <<"1">> \o PadStart2(s)
      [] form = "NMM-"  -> <<"1">> \o PadStart2(s) \o <<"-">> \o PadStart2(e)

NoSuffix == << >>
MarkerSuffix == <<".", "E", "0", "3", ".", "e", "0", "1">>
NxSuffix == <<".", "1", "x", "0", "3">>

Suffixes == {NoSuffix, MarkerSuffix, NxSuffix}

NameInputs ==
    {[kind |-> "name", form |-> t[1], s |-> t[2], e |-> t[3], suffix |-> x,
      base |-> Prefix \o Token(t[1], t[2], t[3]),
      name |-> Prefix \o Token(t[1], t[2], t[3]) \o x] :
        t \in {u \in Forms \X Eps \X Eps : u[1] \in TwoNumberForms \/ u[3] = u[2]},
        x \in Suffixes}

\* emgo-series.js parseFileName applied to a name
ParseSeries ==
    /\ arg.kind = "name"
    /\ res = Null
    /\ res' = [fn |-> "series.parseFileName", out |-> SeriesEpisodes(arg.name)]
    /\ UNCHANGED <<arg, pipeline>>

\* emgo-gemini-series.js parseFileName applied to a name
ParseGemini ==
    /\ arg.kind = "name"
    /\ res = Null
    /\ res' = [fn |-> "gemini.parseFileName", out |-> GeminiEpisodes(arg.name)]
    /\ UNCHANGED <<arg, pipeline>>

\* ------------------------------------------------------- names with ':'
\* Titles a provider can return, over letters, ':', ' ' and '/'.
TitleChars == {"A", ":", " ", "/"}

Titles == UNION {[1..n -> TitleChars] : n \in 0..MaxTitleLen}

TitleInputs == {[kind |-> "title", title |-> t] : t \in Titles}

\* A provider record with the given title.
RecordOf(t) == [R2021 EXCEPT !.title = t]

\* A global replace of the two-character pattern <<a, b>>, left to right
\* over non-overlapping occurrences (String.prototype.replace with /ab/g,
\* bash ${name//ab/by}).
RECURSIVE ReplacePair(_, _, _, _)
ReplacePair(s, a, b, by) ==
    IF Len(s) < 2 THEN s
    ELSE IF s[1] = a /\ s[2] = b
         THEN by \o ReplacePair(SubSeq(s, 3, Len(s)), a, b, by)
         ELSE <<s[1]>> \o ReplacePair(Tail(s), a, b, by)

\* `${movieTitle} (${movieYear})`
FolderName(t, y) == t \o <<" ", "(">> \o y \o <<")">>

\* emgo-movies.js fixNames line 189:
\* item.name.replace(/: /g, ' - ').replace(/:/g, ' -')
newName(name) ==
    ReplaceChar(ReplacePair(name, ":", " ", <<" ", "-", " ">>), ":", <<" ", "-">>)

\* the shell renamer: new_name="${name//: / - }"; new_name="${new_name//:/ -}"
new_name(name) ==
    ReplaceChar(ReplacePair(name, ":", " ", <<" ", "-", " ">>), ":", <<" ", "-">>)

\* The title part of a destination path, as a string.
TitleOf(dest) == dest.folder[1]

\* emgo-movies.js createSymlink on a record with the title: the folder name
\* it creates, and what fix-names and the renamer make of the folder name
\* an unrewritten title would have given and of the created one.
RewriteTitle ==
    /\ arg.kind = "title"
    /\ res = Null
    /\ res' = [fn |-> "rewrite",
               created |-> FolderName(movieTitle(RecordOf(arg.title)), Y2021),
               fixed |-> newName(FolderName(arg.title, Y2021)),
               renamed |-> new_name(FolderName(arg.title, Y2021)),
               fixedAgain |->
                   newName(FolderName(movieTitle(RecordOf(arg.title)), Y2021)),
               renamedAgain |->
                   new_name(FolderName(movieTitle(RecordOf(arg.title)), Y2021))]
    /\ UNCHANGED <<arg, pipeline>>

\* The destination each script builds for a record with the title.
DestMovies ==
    /\ arg.kind = "title"
    /\ res = Null
    /\ res' = [fn |-> "movies.dest",
               out |-> movieDestFile(RecordOf(arg.title), Parsed("movies", FileA))]
    /\ UNCHANGED <<arg, pipeline>>

DestSeries ==
    /\ arg.kind = "title"
    /\ res = Null
    /\ res' = [fn |-> "series.dest",
               out |-> seriesDestFile(RecordOf(arg.title), Parsed("series", FileA), "01")]
    /\ UNCHANGED <<arg, pipeline>>

DestGemini ==
    /\ arg.kind = "title"
    /\ res = Null
    /\ res' = [fn |-> "gemini.dest",
               out |-> geminiDestPath(RecordOf(arg.title), Parsed("gemini", FileA), "01")]
    /\ UNCHANGED <<arg, pipeline>>

\* --------------------------------------------- emgo-movies.js, end to end
\* File names, titles and paths are sequences of characters.
LowerLetters ==
    <<"a", "b", "c", "d", "e", "f", "g", "h", "i", "j", "k", "l", "m", "n", "o", "p", "q", "r", "s", "t", "u", "v", "w", "x", "y", "z">>

UpperLetters ==
    <<"A", "B", "C", "D", "E", "F", "G", "H", "I", "J", "K", "L", "M", "N", "O", "P", "Q", "R", "S", "T", "U", "V", "W", "X", "Y", "Z">>

IsLower(c) == \E k \in DOMAIN LowerLetters : LowerLetters[k] = c

IsUpper(c) == \E k \in DOMAIN UpperLetters : UpperLetters[k] = c

\* String.prototype.toUpperCase and the folding of the regex flag i
UpperOf(c) ==
    IF IsLower(c) THEN UpperLetters[CHOOSE k \in DOMAIN LowerLetters : LowerLetters[k] = c]
    ELSE c

toUpperCase(s) == [i \in DOMAIN s |-> UpperOf(s[i])]

\* \w and \s of a regular expression
IsWord(c) == IsLower(c) \/ IsUpper(c) \/ IsDigit(c) \/ c = "_"

IsSpace(c) == c \in {" ", "\t"}

\* \b at the gap before position i
Boundary(s, i) == IsWord(At(s, i - 1)) # IsWord(At(s, i))

\* the literal kw at position i, under the flag i
LiteralAt(s, i, kw) ==
    /\ i + Len(kw) - 1 <= Len(s)
    /\ \A k \in DOMAIN kw : UpperOf(s[i + k - 1]) = UpperOf(kw[k])

\* String.prototype.trim
RECURSIVE TrimStart(_)
TrimStart(s) == IF s # << >> /\ IsSpace(Head(s)) THEN TrimStart(Tail(s)) ELSE s

RECURSIVE TrimEnd(_)
TrimEnd(s) ==
    IF s # << >> /\ IsSpace(s[Len(s)]) THEN TrimEnd(SubSeq(s, 1, Len(s) - 1)) ELSE s

Trim(s) == TrimEnd(TrimStart(s))

\* the first position from i on that holds no whitespace
RECURSIVE SkipSpaces(_, _)
SkipSpaces(s, i) == IF IsSpace(At(s, i)) THEN SkipSpaces(s, i + 1) ELSE i

\* .replace(/\s{2,}/g, ' ')
RECURSIVE CollapseSpaces(_)
CollapseSpaces(s) ==
    IF s = << >> THEN << >>
    ELSE IF IsSpace(At(s, 1)) /\ IsSpace(At(s, 2))
         THEN <<" ">> \o CollapseSpaces(SubSeq(s, SkipSpaces(s, 1), Len(s)))
         ELSE <<Head(s)>> \o CollapseSpaces(Tail(s))

\* the position of the last occurrence of c in s, 0 when there is none
RECURSIVE LastIndexOf(_, _)
LastIndexOf(s, c) ==
    IF s = << >> THEN 0
    ELSE IF s[Len(s)] = c THEN Len(s) ELSE LastIndexOf(SubSeq(s, 1, Len(s) - 1), c)

\* path.basename, path.extname and path.parse(p).name
basename(p) == SubSeq(p, LastIndexOf(p, "/") + 1, Len(p))

extname(p) ==
    IF LastIndexOf(basename(p), ".") <= 1 THEN << >>
    ELSE SubSeq(basename(p), LastIndexOf(basename(p), "."), Len(basename(p)))

nameOf(p) == SubSeq(basename(p), 1, Len(basename(p)) - Len(extname(p)))

\* lines 30-34
qualityKeywords ==
    <<
     <<"2", "1", "6", "0", "p">>, <<"1", "0", "8", "0", "p">>, <<"7", "2", "0", "p">>, <<"4", "8", "0", "p">>, <<"H", "D", "R">>, <<"4", "K">>
    >>

sourceKeywords ==
    <<
     <<"W", "E", "B", "-", "D", "L">>, <<"W", "E", "B", "R", "i", "p">>, <<"H", "D", "T", "V">>, <<"B", "l", "u", "R", "a", "y">>,
     <<"B", "D", "R", "e", "m", "u", "x">>, <<"R", "e", "m", "u", "x">>, <<"D", "V", "D", "R", "i", "p">>
    >>

videoCodecKeywords ==
    <<
     <<"x", "2", "6", "4">>, <<"x", "2", "6", "5">>, <<"H", ".", "2", "6", "4">>, <<"H", ".", "2", "6", "5">>,
     <<"A", "V", "C">>, <<"H", "E", "V", "C">>, <<"V", "P", "9">>
    >>

audioCodecKeywords ==
    <<
     <<"A", "A", "C">>, <<"A", "C", "3">>, <<"D", "T", "S">>, <<"D", "T", "S", "-", "H", "D">>,
     <<"T", "r", "u", "e", "H", "D">>, <<"A", "t", "m", "o", "s">>, <<"D", "D", "P">>, <<"F", "L", "A", "C">>
    >>

editionKeywords ==
    <<
     <<"e", "x", "t", "e", "n", "d", "e", "d", " ", "e", "d", "i", "t", "i", "o", "n">>, <<"d", "i", "r", "e", "c", "t", "o", "r", "s", " ", "c", "u", "t">>,
     <<"r", "e", "m", "a", "s", "t", "e", "r", "e", "d">>, <<"u", "n", "c", "u", "t">>,
     <<"3", "D">>, <<"h", "s", "b", "s">>,
     <<"H", "a", "l", "f", "-", "S", "B", "S">>, <<"S", "B", "S">>
    >>

\* line 38: the alternatives of allKeywordsRegex, in order
allKeywords ==
    qualityKeywords \o sourceKeywords \o videoCodecKeywords \o audioCodecKeywords
        \o editionKeywords

\* lines 73-81
stripLabels ==
    <<
     <<"u", "n", "r", "a", "t", "e", "d">>, <<"e", "x", "t", "e", "n", "d", "e", "d">>, <<"d", "i", "r", "e", "c", "t", "o", "r", "s", " ", "c", "u", "t">>, <<"r", "e", "m", "a", "s", "t", "e", "r", "e", "d">>,
     <<"f", "i", "n", "a", "l", " ", "c", "u", "t">>, <<"u", "n", "c", "u", "t">>, <<"i", "m", "a", "x">>, <<"u", "l", "t", "i", "m", "a", "t", "e">>,
     <<"c", "o", "l", "l", "e", "c", "t", "o", "r", "s">>, <<"l", "i", "m", "i", "t", "e", "d">>, <<"r", "e", "p", "a", "c", "k">>, <<"r", "e", "a", "d", "n", "f", "o">>,
     <<"p", "r", "o", "p", "e", "r">>, <<"i", "n", "t", "e", "r", "n", "a", "l">>, <<"c", "a", "m">>, <<"t", "c">>,
     <<"t", "s">>, <<"3", "d">>, <<"h", "s", "b", "s">>, <<"s", "b", "s">>,
     <<"h", "d", "t", "v">>, <<"b", "l", "u", "r", "a", "y">>, <<"w", "e", "b", "r", "i", "p">>, <<"w", "e", "b", " ", "d", "l">>,
     <<"d", "v", "d", "r", "i", "p">>, <<"h", "d", "r", "i", "p">>, <<"x", "v", "i", "d">>, <<"x", "2", "6", "4">>,
     <<"x", "2", "6", "5">>, <<"h", "e", "v", "c">>, <<"a", "v", "c">>, <<"h", "2", "6", "4">>,
     <<"h", "2", "6", "5">>, <<"a", "a", "c">>, <<"a", "c", "3">>, <<"d", "t", "s">>,
     <<"t", "r", "u", "e", "h", "d">>, <<"a", "t", "m", "o", "s">>, <<"d", "d", "p">>, <<"y", "i", "f", "y">>,
     <<"e", "v", "o">>, <<"f", "g", "t">>, <<"t", "g", "x">>
    >>

\* \b(k1|k2|...)\b at position i under the flag i: the length of the first
\* alternative from the k-th on that matches with a boundary on both
\* sides, 0 when none does.
RECURSIVE KeywordAt(_, _, _, _)
KeywordAt(s, i, list, k) ==
    IF k > Len(list) \/ ~Boundary(s, i) THEN 0
    ELSE IF LiteralAt(s, i, list[k]) /\ Boundary(s, i + Len(list[k]))
         THEN Len(list[k])
         ELSE KeywordAt(s, i, list, k + 1)

\* name.match(regex) with the flag g: the matched texts from position i on
RECURSIVE MatchKeywords(_, _, _)
MatchKeywords(s, i, list) ==
    IF i > Len(s) THEN << >>
    ELSE IF KeywordAt(s, i, list, 1) > 0
         THEN <<SubSeq(s, i, i + KeywordAt(s, i, list, 1) - 1)>>
                  \o MatchKeywords(s, i + KeywordAt(s, i, list, 1), list)
         ELSE MatchKeywords(s, i + 1, list)

\* .replace(regex, '') with the flag g, from position i on
RECURSIVE RemoveKeywords(_, _, _)
RemoveKeywords(s, i, list) ==
    IF i > Len(s) THEN << >>
    ELSE IF KeywordAt(s, i, list, 1) > 0
         THEN RemoveKeywords(s, i + KeywordAt(s, i, list, 1), list)
         ELSE <<s[i]>> \o RemoveKeywords(s, i + 1, list)

\* line 51: /^\s*www\.[^-\s]+\s*-\s*/i, the position after the match at the
\* start of s, 0 when there is no match
SiteRunEnd(s, i) ==
    CHOOSE j \in i..(Len(s) + 1) :
        /\ \A k \in i..(j - 1) : s[k] # "-" /\ ~IsSpace(s[k])
        /\ (j = Len(s) + 1 \/ s[j] = "-" \/ IsSpace(s[j]))

SitePrefixEnd(s) ==
    IF /\ LiteralAt(s, SkipSpaces(s, 1), <<"w", "w", "w", ".">>)
       /\ SiteRunEnd(s, SkipSpaces(s, 1) + 4) > SkipSpaces(s, 1) + 4
       /\ At(s, SkipSpaces(s, SiteRunEnd(s, SkipSpaces(s, 1) + 4))) = "-"
    THEN SkipSpaces(s, SkipSpaces(s, SiteRunEnd(s, SkipSpaces(s, 1) + 4)) + 1)
    ELSE 0

StripSite(s) ==
    IF SitePrefixEnd(s) = 0 THEN s ELSE SubSeq(s, SitePrefixEnd(s), Len(s))

\* line 53: /\bEp\s*(\d{1,2})\b/gi at position i: the number of digits of
\* the match, 0 when there is none
EpDigitsAt(s, i) ==
    IF ~(Boundary(s, i) /\ LiteralAt(s, i, <<"E", "p">>)) THEN 0
    ELSE IF DigitsAt(s, SkipSpaces(s, i + 2), 2) /\ Boundary(s, SkipSpaces(s, i + 2) + 2)
         THEN 2
         ELSE IF DigitsAt(s, SkipSpaces(s, i + 2), 1) /\ Boundary(s, SkipSpaces(s, i + 2) + 1)
              THEN 1
              ELSE 0

\* .replace(/\bEp\s*(\d{1,2})\b/gi, 'Episode $1')
RECURSIVE ExpandEp(_, _)
ExpandEp(s, i) ==
    IF i > Len(s) THEN << >>
    ELSE IF EpDigitsAt(s, i) > 0
         THEN <<"E", "p", "i", "s", "o", "d", "e", " ">>
                  \o SubSeq(s, SkipSpaces(s, i + 2), SkipSpaces(s, i + 2) + EpDigitsAt(s, i) - 1)
                  \o ExpandEp(s, SkipSpaces(s, i + 2) + EpDigitsAt(s, i))
         ELSE <<s[i]>> \o ExpandEp(s, i + 1)

\* lines 46-56
cleaned(name) == Trim(CollapseSpaces(ExpandEp(StripSite(Trim(DotsToSpaces(name))), 1)))

\* line 60: /\b(19[5-9]\d|20\d{2})\b/ at position i
YearAt(s, i) ==
    /\ Boundary(s, i)
    /\ \/ At(s, i) = "1" /\ At(s, i + 1) = "9" /\ At(s, i + 2) \in {"5", "6", "7", "8", "9"}
       \/ At(s, i) = "2" /\ At(s, i + 1) = "0" /\ IsDigit(At(s, i + 2))
    /\ IsDigit(At(s, i + 3))
    /\ Boundary(s, i + 4)

\* yearMatch.index, counted from 1; 0 when there is no match
yearIndex(s) ==
    IF \E i \in DOMAIN s : YearAt(s, i) THEN CHOOSE i \in DOMAIN s :
        YearAt(s, i) /\ \A j \in 1..(i - 1) : ~YearAt(s, j)
    ELSE 0

\* .replace(/-\s*$/, '')
StripTrailingDash(s) ==
    IF TrimEnd(s) # << >> /\ TrimEnd(s)[Len(TrimEnd(s))] = "-"
    THEN SubSeq(s, 1, Len(TrimEnd(s)) - 1)
    ELSE s

\* [...new Set(descriptors.map(k => k.toUpperCase()))].join(' ')
RECURSIVE JoinSpace(_)
JoinSpace(q) ==
    IF q = << >> THEN << >>
    ELSE IF Len(q) = 1 THEN q[1]
         ELSE q[1] \o <<" ">> \o JoinSpace(Tail(q))

UpperAll(q) == [k \in DOMAIN q |-> toUpperCase(q[k])]

\* parseFileName of emgo-movies.js, lines 43-99, on the characters of a
\* file name; year is NoYear when the name holds none.
rawTitleOf(c) ==
    Trim(CollapseSpaces(StripTrailingDash(RemoveKeywords(
        IF yearIndex(c) = 0 THEN c ELSE Trim(SubSeq(c, 1, yearIndex(c) - 1)),
        1, stripLabels))))

yearOf(c) == IF yearIndex(c) = 0 THEN NoYear ELSE SubSeq(c, yearIndex(c), yearIndex(c) + 3)

parseFileName(filename) ==
    [rawTitle |-> rawTitleOf(cleaned(nameOf(filename))),
     year |-> yearOf(cleaned(nameOf(filename))),
     descriptors |->
         Trim(JoinSpace(Distinct(UpperAll(MatchKeywords(nameOf(filename), 1, allKeywords)))))]

\* line 154: (movie.title || rawTitle) with ':' and '/' rewritten
destTitle(movie, rawTitle) ==
    movieTitle([title |-> IF movie.title # << >> THEN movie.title ELSE rawTitle])

\* Mutant: the year of the file name comes before the provider's.
movieYear_FileFirst(movie, year) ==
    IF year # NoYear THEN year
    ELSE IF SplitHead(movie.date) # << >> THEN SplitHead(movie.date)
         ELSE <<"0", "0", "0", "0">>

\* line 155: movie.release_date?.split('-')[0] || year || '0000'
movieYear(movie, year) ==
    IF SplitHead(movie.date) # << >> THEN SplitHead(movie.date)
    ELSE IF year # NoYear THEN year
         ELSE <<"0", "0", "0", "0">>

\* lines 156-157: folder and destFile, path.join of its parts
folderOf(destDir, movie, parsed) ==
    destDir \o <<"/">> \o FolderName(destTitle(movie, parsed.rawTitle),
                                     movieYear(movie, parsed.year))

destFileOf(destDir, movie, parsed, filePath) ==
    folderOf(destDir, movie, parsed) \o <<"/">>
        \o FolderName(destTitle(movie, parsed.rawTitle), movieYear(movie, parsed.year))
        \o (IF parsed.descriptors # << >> THEN <<" ", "-", " ">> \o parsed.descriptors
            ELSE << >>)
        \o extname(filePath)

\* Source files: the scenario's, the same release under another directory
\* and spelling, one with another year token, one with no year token, one
\* with other descriptors and one with another extension.
SrcScenario ==
    <<"/", "s", "r", "c", "/", "S", "o", "m", "e", ".", "M", "o", "v", "i", "e", ".", "2", "0", "2", "0", ".", "1", "0", "8", "0", "p", ".", "W", "E", "B", "-", "D", "L", ".", "x", "2", "6", "4", ".", "m", "k", "v">>

SrcOtherDir ==
    <<"/", "s", "r", "c", "/", "n", "e", "w", "/", "S", "o", "m", "e", " ", "M", "o", "v", "i", "e", " ", "(", "2", "0", "2", "0", ")", " ", "1", "0", "8", "0", "p", " ", "w", "e", "b", "-", "d", "l", " ", "X", "2", "6", "4", ".", "m", "k", "v">>

SrcOtherTitle ==
    <<"/", "s", "r", "c", "/", "S", "m", "e", ".", "M", "o", "v", "i", "e", ".", "E", "x", "t", "e", "n", "d", "e", "d", ".", "1", "9", "9", "9", ".", "E", "p", "1", ".", "1", "0", "8", "0", "p", ".", "W", "E", "B", "-", "D", "L", ".", "x", "2", "6", "4", ".", "m", "k", "v">>

SrcNoYear ==
    <<"/", "s", "r", "c", "/", "S", "o", "m", "e", ".", "M", "o", "v", "i", "e", ".", "1", "0", "8", "0", "p", ".", "1", "0", "8", "0", "P", ".", "W", "E", "B", "-", "D", "L", ".", "x", "2", "6", "4", ".", "m", "k", "v">>

SrcPlain ==
    <<"/", "s", "r", "c", "/", "S", "o", "m", "e", ".", "M", "o", "v", "i", "e", ".", "2", "0", "2", "0", ".", "m", "k", "v">>

SrcMp4 ==
    <<"/", "s", "r", "c", "/", "S", "o", "m", "e", ".", "M", "o", "v", "i", "e", ".", "2", "0", "2", "0", ".", "D", "T", "S", "-", "H", "D", ".", "m", "p", "4">>

SourceFiles == {SrcScenario, SrcOtherDir, SrcOtherTitle, SrcNoYear, SrcPlain, SrcMp4}

DestRoot == <<"/", "d", "e", "s", "t">>

\* The provider's record of the scenario, and the same with no release date.
SomeMovie ==
    [title |-> <<"S", "o", "m", "e", " ", "M", "o", "v", "i", "e">>,
     date |-> <<"2", "0", "2", "0", "-", "0", "7", "-", "1", "6">>]

SomeMovieNoDate == [SomeMovie EXCEPT !.date = << >>]

MovieRecords == {SomeMovie, SomeMovieNoDate}

MovieInputs ==
    {[kind |-> "movie", a |-> a, b |-> b, movie |-> m] :
        a \in SourceFiles, b \in SourceFiles, m \in MovieRecords}

\* createSymlink of emgo-movies.js from parseFileName to destFile, on two
\* source files that resolve to the same record.
BuildDestination ==
    /\ arg.kind = "movie"
    /\ res = Null
    /\ res' = [fn |-> "movies.destFile",
               parsedA |-> parseFileName(basename(arg.a)),
               parsedB |-> parseFileName(basename(arg.b)),
               a |-> destFileOf(DestRoot, arg.movie, parseFileName(basename(arg.a)), arg.a),
               b |-> destFileOf(DestRoot, arg.movie, parseFileName(basename(arg.b)), arg.b)]
    /\ UNCHANGED <<arg, pipeline>>

PureInputs == SelectInputs \cup NameInputs \cup TitleInputs \cup MovieInputs

PureInit ==
    /\ variant = "series"
    /\ dryRun = FALSE
    /\ files = Batch(1)
    /\ Idle
    /\ arg \in PureInputs
    /\ res = Null

PureNext ==
    \/ SelectMovie
    \/ SelectSeries
    \/ SelectGemini
    \/ ParseSeries
    \/ ParseGemini
    \/ RewriteTitle
    \/ DestMovies
    \/ DestSeries
    \/ DestGemini
    \/ BuildDestination

PureSpec == PureInit /\ [][PureNext]_vars

\* ------------------------------------------------ the walk of the source
\* Paths are sequences of components.  The roots are the defaults of the
\* options --source and --dest of the series scripts; the working directory
\* of the process is the script's folder, the destination root or the
\* source root.
SourceRoot == <<"mnt", "torrents", "shows">>
DestDir == <<"media", "tvshows">>
ScriptDir == <<"opt", "emgo">>

WorkingDirs == {ScriptDir, DestDir, SourceRoot}

\* A directory entry (fs.Dirent): its name, its kind and its extension.
Entry(name, kind, ext) == [name |-> name, kind |-> kind, ext |-> ext]

\* const videoExtensions = /\.(mkv|mp4|avi|mov|wmv|flv|m4v)$/i
VideoExtensions == {"mkv", "mp4", "avi", "mov", "wmv", "flv", "m4v"}

\* The source tree: what fs.readdir gives for each directory, in its order.
SourceTree(dir) ==
    CASE dir = SourceRoot ->
           <<Entry("a.mkv", "file", "mkv"), Entry("s1", "dir", ""),
             Entry("b.mp4", "file", "mp4"), Entry("s2", "dir", ""),
             Entry("n.txt", "file", "txt")>>
      [] dir = SourceRoot \o <<"s1">> ->
           <<Entry("c.mkv", "file", "mkv"), Entry("s3", "dir", ""),
             Entry("d.mkv", "file", "mkv")>>
      [] dir = SourceRoot \o <<"s1", "s3">> ->
           <<Entry("e.mkv", "file", "mkv")>>
      [] dir = SourceRoot \o <<"s2">> ->
           <<Entry("l.mkv", "link", "mkv")>>
      [] OTHER -> << >>

SourceDirs ==
    {SourceRoot, SourceRoot \o <<"s1">>, SourceRoot \o <<"s1", "s3">>,
     SourceRoot \o <<"s2">>}

\* The inputs of a run: the working directory and the directories whose
\* readdir fails.
WalkInputs ==
    {[kind |-> "walk", cwd |-> c, unreadable |-> u] :
        c \in WorkingDirs,
        u \in {x \in SUBSET SourceDirs : Cardinality(x) <= MaxFaults}}

\* p is the path d or a path below it
IsUnder(p, d) == Len(d) <= Len(p) /\ SubSeq(p, 1, Len(d)) = d

\* entry.isFile() && videoExtensions.test(entry.name)
IsVideoFile(e) == e.kind = "file" /\ e.ext \in VideoExtensions

\* The files of a directory walked depth first, a subdirectory's files in
\* place of its entry; from the i-th entry of dir on.
RECURSIVE DepthFirst(_, _)
DepthFirst(dir, i) ==
    IF i > Len(SourceTree(dir)) THEN << >>
    ELSE (CASE SourceTree(dir)[i].kind = "dir" ->
                 DepthFirst(dir \o <<SourceTree(dir)[i].name>>, 1)
            [] IsVideoFile(SourceTree(dir)[i]) -> <<dir \o <<SourceTree(dir)[i].name>>>>
            [] OTHER -> << >>)
         \o DepthFirst(dir, i + 1)

\* An activation of findVideoFiles(dir): read is FALSE until readdir has
\* returned the entries, i is the position of the for loop, files the
\* local array.
Frame(dir) == [dir |-> dir, read |-> FALSE, entries |-> << >>, i |-> 1, files |-> << >>]

\* The cache files.  emgo-movies.js: path.join(destDir, ...), lines 24-25;
\* the series scripts: the relative name '.symlinked-series.json', which
\* the fs calls resolve against the working directory.
LinkCachePath(v, cwd) ==
    IF v = "movies" THEN DestDir \o <<".symlinked-movies.json">>
    ELSE cwd \o <<".symlinked-series.json">>

MetaCachePath == DestDir \o <<".tmdb-movie-cache.json">>

\* The folder and the link createSymlink / processFile make for a source
\* file whose show resolves.
LinkFolder(v) ==
    IF v = "movies" THEN DestDir \o <<"Dune (2021)">>
    ELSE DestDir \o <<"Dune (2021)", "Season 1">>

LinkPath(v, filePath) == LinkFolder(v) \o <<filePath[Len(filePath)]>>

Write(op, path) == [op |-> op, path |-> path]

\* The filesystem writes of one createSymlink / processFile that creates
\* its link: ensureDir, symlink and the saves of the caches.
LinkWrites(v, cwd, filePath) ==
    {Write("mkdir", LinkFolder(v)),
     Write("symlink", LinkPath(v, filePath))}
        \cup (IF v = "movies" THEN {Write("write", MetaCachePath)} ELSE {})
        \cup (IF v = "gemini" THEN {} ELSE {Write("write", LinkCachePath(v, cwd))})

\* Mutant: the files of a subdirectory go before the files found so far.
Concat_NestedFirst(found, nested) == nested \o found

\* files.push(...nested) / files = files.concat(nested)
Concat(found, nested) == found \o nested

WalkStart ==
    [pc |-> "main", stack |-> << >>, files |-> << >>, k |-> 0, processed |-> << >>,
     writes |-> {}]

WalkInit ==
    /\ variant \in Variants
    /\ dryRun = FALSE
    /\ files = Batch(1)
    /\ Idle
    /\ arg \in WalkInputs
    /\ res = WalkStart

\* main, run without --clear-cache, up to the call findVideoFiles(sourceDir)
WalkMain ==
    /\ res.pc = "main"
    /\ res' = [res EXCEPT !.pc = "enumerate", !.stack = <<Frame(SourceRoot)>>]
    /\ UNCHANGED <<arg, pipeline>>

Top == res.stack[Len(res.stack)]

\* await fs.readdir(dir, { withFileTypes: true }): no caller catches its
\* rejection, which ends findVideoFiles, its callers and main.
Readdir ==
    /\ res.pc = "enumerate"
    /\ ~Top.read
    /\ IF Top.dir \in arg.unreadable
       THEN res' = [res EXCEPT !.pc = "rejected", !.stack = << >>]
       ELSE res' = [res EXCEPT !.stack[Len(res.stack)].read = TRUE,
                               !.stack[Len(res.stack)].entries = SourceTree(Top.dir)]
    /\ UNCHANGED <<arg, pipeline>>

\* one turn of the loop over the entries
VisitEntry ==
    /\ res.pc = "enumerate"
    /\ Top.read
    /\ Top.i <= Len(Top.entries)
    /\ LET e == Top.entries[Top.i]
           advanced == [res.stack EXCEPT ![Len(res.stack)].i = @ + 1]
       IN  CASE e.kind = "dir" ->
                  res' = [res EXCEPT !.stack = Append(advanced, Frame(Top.dir \o <<e.name>>))]
             [] IsVideoFile(e) ->
                  res' = [res EXCEPT !.stack =
                             [advanced EXCEPT ![Len(res.stack)].files =
                                 Append(@, Top.dir \o <<e.name>>)]]
             [] OTHER -> res' = [res EXCEPT !.stack = advanced]
    /\ UNCHANGED <<arg, pipeline>>

\* return files: to the awaiting activation, or to main, which loads the
\* caches and starts its loop
ReturnFiles ==
    /\ res.pc = "enumerate"
    /\ Top.read
    /\ Top.i > Len(Top.entries)
    /\ IF Len(res.stack) > 1
       THEN res' = [res EXCEPT !.stack =
                       [SubSeq(res.stack, 1, Len(res.stack) - 1)
                           EXCEPT ![Len(res.stack) - 1].files = Concat(@, Top.files)]]
       ELSE res' = [res EXCEPT !.stack = << >>, !.files = Top.files, !.pc = "loop", !.k = 1]
    /\ UNCHANGED <<arg, pipeline>>

\* await createSymlink(filePath, ...) / processFile(filePath, ...) for the
\* k-th file: it creates its link, or returns with none, or (ensureDir of
\* emgo-movies.js and emgo-series.js, outside their try) rejects.
ProcessFile(outcome) ==
    /\ res.pc = "loop"
    /\ res.k <= Len(res.files)
    /\ outcome = "threw" => variant # "gemini"
    /\ res' = [res EXCEPT
                 !.processed = Append(@, res.files[res.k]),
                 !.k = @ + 1,
                 !.pc = IF outcome = "threw" THEN "aborted" ELSE @,
                 !.writes = IF outcome = "linked"
                            THEN @ \cup LinkWrites(variant, arg.cwd, res.files[res.k])
                            ELSE @]
    /\ UNCHANGED <<arg, pipeline>>

\* the end of the loop; emgo-gemini-series.js saves its cache here
LoopDone ==
    /\ res.pc = "loop"
    /\ res.k > Len(res.files)
    /\ res' = [res EXCEPT
                 !.pc = "done",
                 !.writes = IF variant = "gemini"
                            THEN @ \cup {Write("write", LinkCachePath(variant, arg.cwd))}
                            ELSE @]
    /\ UNCHANGED <<arg, pipeline>>

WalkNext ==
    \/ WalkMain
    \/ Readdir
    \/ VisitEntry
    \/ ReturnFiles
    \/ \E outcome \in {"linked", "none", "threw"} : ProcessFile(outcome)
    \/ LoopDone

WalkSpec == WalkInit /\ [][WalkNext]_vars

\* --------------------------------------------- the watchers' withRetry
MAX_REINTENTOS == 3
ESPERA_MS == 2000

\* What a request to the remote service ends with: success, a network
\* error with a code, or a response with an HTTP status and an error text.
Ok == [code |-> "", status |-> 200, error |-> ""]

NetworkErrors ==
    {[code |-> c, status |-> 0, error |-> ""] :
        c \in {"ECONNRESET", "ETIMEDOUT", "EAI_AGAIN", "ECONNREFUSED"}}

HttpErrors ==
    {[code |-> "", status |-> 503, error |-> "service_unavailable"],
     [code |-> "", status |-> 500, error |-> "internal_error"],
     [code |-> "", status |-> 451, error |-> "infringing_file"],
     [code |-> "", status |-> 429, error |-> "too_many_requests"]}

Outcomes == {Ok} \cup NetworkErrors \cup HttpErrors

\* esTemporal / temporal of withRetry
esTemporal(err) ==
    \/ err.code = "ECONNRESET"
    \/ err.code = "ETIMEDOUT"
    \/ err.code = "EAI_AGAIN"
    \/ (err.status # 0 /\ err.status >= 500)

\* The upload function has its request inside a try whose catch does not
\* rethrow: subirMagnet and subirTorrent of index-movies.js, subirMagnet of
\* the watcher in emgo-series.js; its subirTorrent has no try.
CatchesOwnErrors(script, upload) ==
    script = "index-movies.js" \/ upload = "magnet"

UploadInputs ==
    {[kind |-> "upload", script |-> sc, upload |-> u] :
        sc \in {"index-movies.js", "emgo-series.js"}, u \in {"torrent", "magnet"}}

\* withRetry(() => subirTorrent(filepath)) / withRetry(() => subirMagnet(...))
\* at its entry: i is the loop variable, calls counts the invocations of
\* fn, errs holds the error of each failed request, waits the sleeps.
RetryStart ==
    [pc |-> "call", i |-> 1, calls |-> 0, errs |-> << >>, waits |-> << >>]

RetryInit ==
    /\ variant = "series"
    /\ dryRun = FALSE
    /\ files = Batch(1)
    /\ Idle
    /\ arg \in UploadInputs
    /\ res = RetryStart

\* return await fn(): the upload function issues its request
InvokeUpload ==
    /\ res.pc = "call"
    /\ res.i <= MAX_REINTENTOS
    /\ res' = [res EXCEPT !.pc = "request", !.calls = @ + 1]
    /\ UNCHANGED <<arg, pipeline>>

\* Mutant: the catch of withRetry does not test i === maxIntentos, so the
\* last transient failure is followed by a wait and the loop runs out.
UploadResponse_WaitAfterLast(out) ==
    /\ res.pc = "request"
    /\ IF out = Ok
       THEN res' = [res EXCEPT !.pc = "returned"]
       ELSE IF CatchesOwnErrors(arg.script, arg.upload)
            THEN res' = [res EXCEPT !.pc = "returned", !.errs = Append(@, out)]
            ELSE IF ~esTemporal(out)
                 THEN res' = [res EXCEPT !.pc = "thrown", !.errs = Append(@, out)]
                 ELSE res' = [res EXCEPT !.pc = "espera", !.errs = Append(@, out),
                                         !.waits = Append(@, res.i * ESPERA_MS)]
    /\ UNCHANGED <<arg, pipeline>>

\* The request ends.  On success, and on an error the upload function
\* catches itself, fn resolves and withRetry returns; otherwise the catch
\* of withRetry rethrows or sleeps i * 2000 ms.
UploadResponse(out) ==
    /\ res.pc = "request"
    /\ IF out = Ok
       THEN res' = [res EXCEPT !.pc = "returned"]
       ELSE IF CatchesOwnErrors(arg.script, arg.upload)
            THEN res' = [res EXCEPT !.pc = "returned", !.errs = Append(@, out)]
            ELSE IF ~esTemporal(out) \/ res.i = MAX_REINTENTOS
                 THEN res' = [res EXCEPT !.pc = "thrown", !.errs = Append(@, out)]
                 ELSE res' = [res EXCEPT !.pc = "espera", !.errs = Append(@, out),
                                         !.waits = Append(@, res.i * ESPERA_MS)]
    /\ UNCHANGED <<arg, pipeline>>

\* await sleep(espera) ends: the next turn of the loop
EsperaDone ==
    /\ res.pc = "espera"
    /\ res' = [res EXCEPT !.pc = "call", !.i = @ + 1]
    /\ UNCHANGED <<arg, pipeline>>

RetryNext ==
    \/ InvokeUpload
    \/ \E out \in Outcomes : UploadResponse(out)
    \/ EsperaDone

RetrySpec == RetryInit /\ [][RetryNext]_vars

\* ------------------------------------------------ the watchers' queue
\* The files dropped into the watched folder: a .torrent file, a file with
\* a magnet link, a text file without one, and a file chokidar reports but
\* the 'add' handler leaves out.
Dropped(name, ext, magnet) ==
    [sub |-> "", name |-> name, ext |-> ext, magnet |-> magnet]

DropBatches ==
    {{Dropped("a", ".torrent", FALSE), Dropped("b", ".magnet", TRUE),
      Dropped("c", ".txt", FALSE)},
     {Dropped("b", ".magnet", TRUE), Dropped("e", ".txt", TRUE),
      Dropped("d", ".nfo", FALSE)}}

WatchInputs ==
    {[kind |-> "watch", script |-> sc, drops |-> b] :
        sc \in {"index-movies.js", "emgo-series.js"}, b \in DropBatches}

\* ext === '.torrent' || ext === '.magnet' || ext === '.txt'
Enqueued(ext) == ext \in {".torrent", ".magnet", ".txt"}

\* path.join(RECHAZADOS_FOLDER, path.basename(filepath)) /
\* path.join(WATCH_FOLDER, 'rechazados', path.basename(filepath))
Destino(p) == [p EXCEPT !.sub = "rechazados"]

\* RECHAZADOS_FOLDER of index-movies.js is a sibling of WATCH_FOLDER; the
\* watcher of emgo-series.js keeps its folder of rejected files inside
\* WATCH_FOLDER, and the ignored pattern of its chokidar.watch only matches
\* names that start with a dot.
QuarantineWatched(script) == script = "emgo-series.js"

\* if (procesando || cola.length === 0) return;
\* Mutant: the flag is not tested.
ColaGuard_NoFlag(procesando, cola) == cola = << >>

ColaGuard(procesando, cola) == procesando \/ cola = << >>

\* The file is handed to withRetry: a .torrent always, another file when
\* it can be read and its text starts with 'magnet:?'.
Uploads(p, disk) == p.ext = ".torrent" \/ (p \in disk /\ p.magnet)

UploadOf(p) == IF p.ext = ".torrent" THEN "torrent" ELSE "magnet"

RemoveAt(s, k) == SubSeq(s, 1, k - 1) \o SubSeq(s, k + 1, Len(s))

\* One turn of while (cola.length > 0) of the activation k of procesarCola,
\* up to its first await; procesando = false when the queue is empty.
LoopTurn(w, k) ==
    IF w.cola = << >>
    THEN [w EXCEPT !.procesando = FALSE, !.loops = RemoveAt(@, k)]
    ELSE IF Uploads(Head(w.cola), w.disk)
         THEN [w EXCEPT !.cola = Tail(@),
                        !.dequeued = Append(@, Head(w.cola)),
                        !.loops[k] = [path |-> Head(w.cola), pc |-> "request", i |-> 1],
                        !.log = Append(@, <<"start", Head(w.cola)>>)]
         ELSE [w EXCEPT !.cola = Tail(@),
                        !.dequeued = Append(@, Head(w.cola)),
                        !.loops[k] = [path |-> Head(w.cola), pc |-> "sleep", i |-> 0],
                        !.processed = Append(@, Head(w.cola))]

\* procesarCola() up to its first await
procesarCola(w) ==
    IF ColaGuard(w.procesando, w.cola)
    THEN w
    ELSE LoopTurn([w EXCEPT !.procesando = TRUE,
                            !.loops = Append(@, [path |-> Null, pc |-> "head", i |-> 0])],
                  Len(w.loops) + 1)

\* withRetry has settled for the file of activation k: the loop goes on to
\* await sleep(RETRASO_ENTRE_ARCHIVOS_MS).
Settled(w, k) ==
    [w EXCEPT !.loops[k].pc = "sleep",
              !.log = Append(@, <<"end", w.loops[k].path>>),
              !.processed = Append(@, w.loops[k].path)]

\* Mutant: procesarCola has no try ... catch around the upload, the
\* rejection ends the activation and procesando stays true.
LoopCatch_Escapes(w, k) ==
    [w EXCEPT !.loops = RemoveAt(@, k), !.threw = TRUE]

\* catch (err) { console.error(...) } of procesarCola
LoopCatch(w, k) == [Settled(w, k) EXCEPT !.threw = TRUE]

WatchStart ==
    [cola |-> << >>, procesando |-> FALSE, loops |-> << >>, disk |-> {},
     events |-> {}, dropped |-> {}, arrivals |-> << >>, dequeued |-> << >>,
     processed |-> << >>, log |-> << >>, accepted |-> {}, rejected |-> {},
     busyAdd |-> FALSE, threw |-> FALSE]

WatchInit ==
    /\ variant = "series"
    /\ dryRun = FALSE
    /\ files = Batch(1)
    /\ Idle
    /\ arg \in WatchInputs
    /\ res = WatchStart

\* A file appears in the watched folder; chokidar will report it.
Drop(p) ==
    /\ arg.kind = "watch"
    /\ p \in arg.drops \ res.dropped
    /\ res' = [res EXCEPT !.disk = @ \cup {p}, !.events = @ \cup {p},
                          !.dropped = @ \cup {p}]
    /\ UNCHANGED <<arg, pipeline>>

\* .on('add', filepath => { ... cola.push({ ext, filepath }); procesarCola(); })
AddEvent(p) ==
    /\ arg.kind = "watch"
    /\ p \in res.events
    /\ IF Enqueued(p.ext)
       THEN res' = procesarCola([res EXCEPT !.events = @ \ {p},
                                            !.cola = Append(@, p),
                                            !.arrivals = Append(@, p),
                                            !.busyAdd = @ \/ res.procesando])
       ELSE res' = [res EXCEPT !.events = @ \ {p}]
    /\ UNCHANGED <<arg, pipeline>>

\* The request of subirTorrent / subirMagnet ends with out.  On success
\* seleccionarArchivos runs and fs.unlinkSync(filepath) follows; the catch
\* of the upload function moves the file on 'infringing_file'; an error
\* that reaches withRetry is retried or rethrown to the catch of the loop.
\* fsOk: whether the unlink or the move succeeds.
UploadSettles(k, out, fsOk) ==
    /\ arg.kind = "watch"
    /\ k \in DOMAIN res.loops
    /\ res.loops[k].pc = "request"
    /\ IF out = Ok
       THEN IF fsOk
            THEN res' = [Settled(res, k) EXCEPT
                            !.accepted = @ \cup {res.loops[k].path},
                            !.disk = @ \ {res.loops[k].path}]
            ELSE IF CatchesOwnErrors(arg.script, UploadOf(res.loops[k].path))
                 THEN res' = [Settled(res, k) EXCEPT
                                 !.accepted = @ \cup {res.loops[k].path}]
                 ELSE res' = [LoopCatch(res, k) EXCEPT
                                 !.accepted = @ \cup {res.loops[k].path}]
       ELSE IF CatchesOwnErrors(arg.script, UploadOf(res.loops[k].path))
            THEN IF out.error = "infringing_file"
                 THEN IF fsOk /\ res.loops[k].path \in res.disk
                      THEN res' = [Settled(res, k) EXCEPT
                                      !.rejected = @ \cup {res.loops[k].path},
                                      !.disk = (@ \ {res.loops[k].path})
                                                 \cup {Destino(res.loops[k].path)},
                                      !.events =
                                          IF /\ QuarantineWatched(arg.script)
                                             /\ Destino(res.loops[k].path) # res.loops[k].path
                                          THEN @ \cup {Destino(res.loops[k].path)}
                                          ELSE @]
                      ELSE res' = [LoopCatch(res, k) EXCEPT
                                      !.rejected = @ \cup {res.loops[k].path}]
                 ELSE res' = Settled(res, k)
            ELSE IF esTemporal(out) /\ res.loops[k].i < MAX_REINTENTOS
                 THEN res' = [res EXCEPT !.loops[k].pc = "espera"]
                 ELSE res' = LoopCatch(res, k)
    /\ UNCHANGED <<arg, pipeline>>

\* await sleep(espera) of withRetry ends: fn is invoked again
RetryWaitDone(k) ==
    /\ arg.kind = "watch"
    /\ k \in DOMAIN res.loops
    /\ res.loops[k].pc = "espera"
    /\ res' = [res EXCEPT !.loops[k].pc = "request", !.loops[k].i = @ + 1]
    /\ UNCHANGED <<arg, pipeline>>

\* await sleep(RETRASO_ENTRE_ARCHIVOS_MS) ends: the next turn of the loop
RetrasoDone(k) ==
    /\ arg.kind = "watch"
    /\ k \in DOMAIN res.loops
    /\ res.loops[k].pc = "sleep"
    /\ res' = LoopTurn(res, k)
    /\ UNCHANGED <<arg, pipeline>>

WatchNext ==
    \/ \E p \in arg.drops : Drop(p)
    \/ \E p \in res.events : AddEvent(p)
    \/ \E k \in DOMAIN res.loops, out \in Outcomes, fsOk \in BOOLEAN : UploadSettles(k, out, fsOk)
    \/ \E k \in DOMAIN res.loops : RetryWaitDone(k)
    \/ \E k \in DOMAIN res.loops : RetrasoDone(k)

WatchSpec == WatchInit /\ [][WatchNext]_vars

\* Every remote call returns or fails and every timer fires.
WatchFairSpec ==
    /\ WatchInit
    /\ [][WatchNext]_vars
    /\ WF_vars(\E k \in DOMAIN res.loops, out \in Outcomes, fsOk \in BOOLEAN : UploadSettles(k, out, fsOk))
    /\ WF_vars(\E k \in DOMAIN res.loops : RetryWaitDone(k))
    /\ WF_vars(\E k \in DOMAIN res.loops : RetrasoDone(k))

\* ------------------------------------------------ --fix-names
\* fixNames of emgo-movies.js on a destination entries.  Paths and names are
\* strings; an entry of the entries is a directory, a symlink whose target
\* exists, or a symlink whose target is gone.
FixRoot == <<"/", "d">>

\* path.join(currentDir, item.name)
Join(dir, name) == dir \o <<"/">> \o name

\* item.name.includes(':')
HasColon(name) == \E i \in DOMAIN name : name[i] = ":"

\* path.basename(SYMLINK_FILE), path.basename(CACHE_FILE), shortened
CacheFileNames == {<<".", "s">>, <<".", "t">>}

TreeEntry(path, type) == [path |-> path, type |-> type]

NameA == <<"A", ":">>
NameA2 == <<"A", ":", "2">>
NameADash == <<"A", " ", "-">>
NameADash2 == <<"A", " ", "-", "2">>
NameB == <<"B">>
NameF == <<"f">>

FixNames == {NameA, NameA2, NameADash, NameADash2, NameB, NameF} \cup CacheFileNames

\* Destination trees with their link caches: a folder and its link, both
\* with ':'; two folders of which one name starts with the other, with and
\* without a folder at the sanitized name of the longer one; a folder whose
\* sanitized name exists; a link whose sanitized name is a link with no
\* target; a entries without ':'.
FixCases ==
    {[tree |-> {TreeEntry(Join(FixRoot, NameA), "dir"),
                TreeEntry(Join(Join(FixRoot, NameA), NameA), "link"),
                TreeEntry(Join(FixRoot, NameB), "dir"),
                TreeEntry(Join(Join(FixRoot, NameB), NameF), "link"),
                TreeEntry(Join(FixRoot, <<".", "s">>), "link")},
      cache |-> [k \in {"k1", "k2"} |->
                    IF k = "k1" THEN Join(Join(FixRoot, NameA), NameA)
                    ELSE Join(Join(FixRoot, NameB), NameF)]],
     [tree |-> {TreeEntry(Join(FixRoot, NameA), "dir"),
                TreeEntry(Join(Join(FixRoot, NameA), NameF), "link"),
                TreeEntry(Join(FixRoot, NameA2), "dir"),
                TreeEntry(Join(Join(FixRoot, NameA2), NameF), "link")},
      cache |-> [k \in {"k1", "k2"} |->
                    IF k = "k1" THEN Join(Join(FixRoot, NameA), NameF)
                    ELSE Join(Join(FixRoot, NameA2), NameF)]],
     [tree |-> {TreeEntry(Join(FixRoot, NameA), "dir"),
                TreeEntry(Join(FixRoot, NameA2), "dir"),
                TreeEntry(Join(Join(FixRoot, NameA2), NameF), "link"),
                TreeEntry(Join(FixRoot, NameADash2), "dir")},
      cache |-> [k \in {"k1"} |-> Join(Join(FixRoot, NameA2), NameF)]],
     [tree |-> {TreeEntry(Join(FixRoot, NameA), "dir"),
                TreeEntry(Join(Join(FixRoot, NameA), NameF), "link"),
                TreeEntry(Join(FixRoot, NameADash), "dir")},
      cache |-> [k \in {"k1"} |-> Join(Join(FixRoot, NameA), NameF)]],
     [tree |-> {TreeEntry(Join(FixRoot, NameA), "link"),
                TreeEntry(Join(FixRoot, NameADash), "dangling")},
      cache |-> [k \in {"k1"} |-> Join(FixRoot, NameA)]],
     [tree |-> {TreeEntry(Join(FixRoot, NameB), "dir"),
                TreeEntry(Join(Join(FixRoot, NameB), NameF), "link")},
      cache |-> [k \in {"k1"} |-> Join(Join(FixRoot, NameB), NameF)]]}

FixInputs == {[kind |-> "fix", tree |-> c.tree, cache |-> c.cache] : c \in FixCases}

\* p is dir or lies under it (a path prefix, not a string prefix)
AtOrUnder(p, dir) == p = dir \/ StartsWith(p, dir \o <<"/">>)

\* fs.readdir(currentDir): the names of the entries of the directory
NamesIn(entries, dir) ==
    {SubSeq(e.path, Len(dir) + 2, Len(e.path)) :
        e \in {x \in entries : /\ StartsWith(x.path, dir \o <<"/">>)
                            /\ \A i \in (Len(dir) + 2)..Len(x.path) : x.path[i] # "/"}}

\* item.isDirectory()
IsDirectory(entries, path) == TreeEntry(path, "dir") \in entries

EntryAt(entries, path) == \E e \in entries : e.path = path

\* fs.pathExists(newPath): fs.access follows a symlink, so a symlink whose
\* target is gone does not exist for it.
fsPathExists(entries, path) == \E e \in entries : e.path = path /\ e.type # "dangling"

\* fs.rename(oldPath, newPath) can succeed: a directory cannot take the
\* place of an entry that is no directory.
CanRename(entries, oldPath, newPath) ==
    ~(IsDirectory(entries, oldPath) /\ EntryAt(entries, newPath))

\* targetPath.replace(oldPath, newPath) on a string that starts with oldPath
ReplacePrefix(p, oldPath, newPath) ==
    newPath \o SubSeq(p, Len(oldPath) + 1, Len(p))

\* The entries after fs.rename(oldPath, newPath): the entry and everything
\* under it moves; an entry that was at newPath is replaced.
Renamed(entries, oldPath, newPath) ==
    {IF AtOrUnder(e.path, oldPath)
     THEN [e EXCEPT !.path = ReplacePrefix(e.path, oldPath, newPath)]
     ELSE e : e \in {x \in entries : x.path # newPath}}

\* for (const [key, targetPath] of Object.entries(linkCache))
\*   if (targetPath.startsWith(oldPath)) linkCache[key] = targetPath.replace(...)
UpdateLinks(cache, oldPath, newPath) ==
    [k \in DOMAIN cache |->
        IF StartsWith(cache[k], oldPath)
        THEN ReplacePrefix(cache[k], oldPath, newPath)
        ELSE cache[k]]

\* An activation of walkAndFix(currentDir)
FixFrame(dir) == [dir |-> dir, read |-> FALSE, todo |-> {}]

FixStart(a) ==
    [pc |-> "walk", stack |-> <<FixFrame(FixRoot)>>, tree |-> a.tree,
     linkCache |-> a.cache, renames |-> << >>, kept |-> {}, written |-> FALSE]

FixInit ==
    /\ variant = "movies"
    /\ dryRun = FALSE
    /\ files = Batch(1)
    /\ Idle
    /\ arg \in FixInputs
    /\ res = FixStart(arg)

FixTop == res.stack[Len(res.stack)]

\* The stack with item name of the top activation done, and walkAndFix
\* called on path when the item is a directory.
FixNextItem(stack, name, recurse, path) ==
    IF recurse
    THEN Append([stack EXCEPT ![Len(stack)].todo = @ \ {name}], FixFrame(path))
    ELSE [stack EXCEPT ![Len(stack)].todo = @ \ {name}]

\* try { items = await fs.readdir(currentDir, ...) } catch (err) { ...; return; }
FixReaddir(ok) ==
    /\ arg.kind = "fix"
    /\ res.pc = "walk"
    /\ res.stack # << >>
    /\ ~FixTop.read
    /\ res' = IF ok
              THEN [res EXCEPT !.stack[Len(res.stack)] =
                        [FixTop EXCEPT !.read = TRUE,
                                       !.todo = NamesIn(res.tree, FixTop.dir)]]
              ELSE [res EXCEPT !.stack = SubSeq(@, 1, Len(@) - 1)]
    /\ UNCHANGED <<arg, pipeline>>

\* One turn of for (const item of items), readdir giving the items in any
\* order.  ok: whether fs.rename succeeds.
FixItem(name, ok) ==
    /\ arg.kind = "fix"
    /\ res.pc = "walk"
    /\ res.stack # << >>
    /\ FixTop.read
    /\ name \in FixTop.todo
    /\ IF name \in CacheFileNames
       THEN /\ ok
            /\ res' = [res EXCEPT !.stack = FixNextItem(@, name, FALSE, << >>)]
       ELSE IF ~HasColon(name)
            THEN /\ ok
                 /\ res' = [res EXCEPT !.stack =
                               FixNextItem(@, name,
                                           IsDirectory(res.tree, Join(FixTop.dir, name)),
                                           Join(FixTop.dir, name))]
            ELSE IF fsPathExists(res.tree, Join(FixTop.dir, newName(name)))
                 THEN /\ ok
                      /\ res' = [res EXCEPT
                                    !.kept = @ \cup {Join(FixTop.dir, name)},
                                    !.stack =
                                       FixNextItem(@, name,
                                                   IsDirectory(res.tree, Join(FixTop.dir, name)),
                                                   Join(FixTop.dir, name))]
                 ELSE IF ok /\ CanRename(res.tree, Join(FixTop.dir, name),
                                         Join(FixTop.dir, newName(name)))
                      THEN res' = [res EXCEPT
                                      !.tree = Renamed(@, Join(FixTop.dir, name),
                                                       Join(FixTop.dir, newName(name))),
                                      !.renames = Append(@,
                                          [old |-> Join(FixTop.dir, name),
                                           new |-> Join(FixTop.dir, newName(name)),
                                           onto |-> EntryAt(res.tree,
                                                            Join(FixTop.dir, newName(name)))]),
                                      !.linkCache = UpdateLinks(@, Join(FixTop.dir, name),
                                                                Join(FixTop.dir, newName(name))),
                                      !.stack =
                                         FixNextItem(@, name,
                                                     IsDirectory(res.tree, Join(FixTop.dir, name)),
                                                     Join(FixTop.dir, newName(name)))]
                      ELSE /\ ~ok
                           /\ res' = [res EXCEPT !.stack = FixNextItem(@, name, FALSE, << >>)]
    /\ UNCHANGED <<arg, pipeline>>

\* The loop of an activation ends: walkAndFix returns
FixReturn ==
    /\ arg.kind = "fix"
    /\ res.pc = "walk"
    /\ res.stack # << >>
    /\ FixTop.read
    /\ FixTop.todo = {}
    /\ res' = [res EXCEPT !.stack = SubSeq(@, 1, Len(@) - 1)]
    /\ UNCHANGED <<arg, pipeline>>

\* if (JSON.stringify(linkCache) !== originalCacheState) await saveJSON(...)
FixSave ==
    /\ arg.kind = "fix"
    /\ res.pc = "walk"
    /\ res.stack = << >>
    /\ res' = [res EXCEPT !.pc = "done", !.written = (res.linkCache # arg.cache)]
    /\ UNCHANGED <<arg, pipeline>>

FixNext ==
    \/ \E ok \in BOOLEAN : FixReaddir(ok)
    \/ \E name \in FixNames, ok \in BOOLEAN : FixItem(name, ok)
    \/ FixReturn
    \/ FixSave

FixSpec == FixInit /\ [][FixNext]_vars

TypeOK ==
    /\ variant \in Variants
    /\ dryRun \in BOOLEAN
    /\ run \in 1..MaxRuns
    /\ pc \in {"start", "file", "primary", "primary2", "savemeta", "backoff",
               "secondary", "sleep", "ensure", "link", "savelink", "delay", "done",
               "aborted"}
    /\ idx \in 0..(Len(files) + 1)
    /\ rateLimited \in 0..MaxRateLimited
    /\ faults \in 0..MaxFaults

\* ----------------------------------------------------------------- claims
\* createSymlink starts resolving the current file (no link-cache hit, the
\* name parsed).
ResolutionStarts ==
    /\ pc = "file"
    /\ idx <= Len(files)
    /\ ~LinkCacheHit(File.base)
    /\ Cur # Null

\* A step in which the resolution of the current file ends with no record.
NotFoundStep ==
    /\ pc \in {"primary", "primary2", "secondary", "sleep"}
    /\ pc' = "file"

\* C1: once fetchMovie has returned a record for a title and year hint, a
\* later call with the same title and year hint and the cache left behind
\* issues no provider request and returns the same record.
C1_CacheRoundTrip ==
    [][(/\ variant = "movies"
        /\ ResolutionStarts
        /\ Truthy(Get(returned, <<Cur.rawTitle, Cur.year>>)))
       => (/\ pc' = "ensure"
           /\ show' = Get(returned, <<Cur.rawTitle, Cur.year>>))]_vars

\* C2: a resolution that ends with no record leaves no entry for the title
\* in the metadata cache (in memory or on disk) that counts as a hit, and
\* the next resolution of a title that was not found issues a provider
\* request again.
C2_NotFoundNotCached ==
    [][/\ NotFoundStep =>
            /\ <<Cur.rawTitle, Cur.year>> \in notFound'
            /\ ~Truthy(Get(tmdbCache', CacheKey(variant, Cur.rawTitle, Cur.year)))
            /\ ~Truthy(Get(metaDisk', CacheKey(variant, Cur.rawTitle, Cur.year)))
       /\ (ResolutionStarts /\ <<Cur.rawTitle, Cur.year>> \in notFound) =>
            /\ pc' = "primary"
            /\ netCall']_vars

\* Witness of C2: in emgo-gemini-series.js the null answer sits in the cache
\* and the request for the same title is in flight again.
C2_Witness ==
    /\ variant = "gemini"
    /\ pc = "primary"
    /\ <<Cur.rawTitle, Cur.year>> \in notFound
    /\ Get(tmdbCache, SeriesKey(Cur.rawTitle)) = Null

\* C3: when a provider lookup succeeded, the record is in the durable
\* metadata cache file once the resolver has returned to its caller.
C3_DurableBeforeReturn ==
    (/\ pc \in {"sleep", "ensure", "link", "savelink", "delay"}
     /\ netCall
     /\ Truthy(show))
    => Get(metaDisk, CacheKey(variant, Cur.rawTitle, Cur.year)) = show

\* C4: at every point of a run, every symlink this run created for a file
\* other than the one being processed has its {basename: destination} entry
\* in the durable link-cache file.
C4_LinkCacheDurable ==
    \A c \in created : c.at < idx => Get(linkDisk, c.base) = c.dest

\* C5: when the link cache has an entry for the file's basename and the
\* recorded destination exists, processing the file issues no provider
\* request, creates no directory and no symlink, and leaves both caches, in
\* memory and on disk, as they are.
C5_LinkCacheHitNoEffect ==
    [][(/\ pc = "file"
        /\ idx <= Len(files)
        /\ Get(linkCache, File.base) # Undefined
        /\ \E l \in links : l.path = Get(linkCache, File.base))
       => (/\ pc' = "file"
           /\ idx' = idx + 1
           /\ ~netCall'
           /\ UNCHANGED <<caches, tree, providers>>)]_vars

\* Witness of C5: the first file of a later run was skipped on a link-cache
\* hit.
C5_Witness ==
    /\ run > 1
    /\ pc = "file"
    /\ idx = 2
    /\ created = {}
    /\ Get(linkCache, files[1].base) # Undefined
    /\ \E l \in links : l.path = Get(linkCache, files[1].base)

\* C6: a file whose link-cache entry names a destination that no longer
\* exists is processed as a file without entry (parsed and resolved, or
\* skipped as unparsable), and after a successful link creation the entry
\* of its basename names a destination that exists.
C6_StaleEntryReprocessed ==
    [][/\ (/\ pc = "file"
           /\ idx <= Len(files)
           /\ Get(linkCache, File.base) # Undefined
           /\ ~ \E l \in links : l.path = Get(linkCache, File.base))
          => IF Cur = Null
             THEN pc' = "file" /\ idx' = idx + 1
             ELSE /\ idx' = idx
                  /\ query' = Cur.rawTitle
                  /\ pc' \in {"primary", "ensure", "link"}
       /\ (pc = "link" /\ links' # links)
          => \E l \in links' : l.path = Get(linkCache', File.base)]_vars

\* Witness of C6: a destination recorded in the link cache was deleted
\* between two runs and this run has created the link again.
C6_Witness ==
    /\ run > 1
    /\ hist.envRemoved
    /\ \E c \in created : Get(snap.linkDisk, c.base) = c.dest

\* A later run that follows a run undisturbed: nothing under the destination
\* root was deleted in between.
SecondRun == run > 1 /\ pc # "start" /\ ~hist.envRemoved

\* C7 as stated: a second run over the same files, after a first run that
\* ran to its end, with the same provider answers and the caches the first
\* run left (or a cleared link cache), leaves the filesystem as the first
\* run left it, attempts no symlink creation and meets no error.
C7_Idempotent_Original ==
    (SecondRun /\ hist.prevDone /\ ~hist.prevLimited) =>
        /\ dirs = snap.dirs
        /\ links = snap.links
        /\ ~hist.attempted
        /\ ~hist.fsError

\* C7 as amended: a later run never removes or changes what the run before
\* it left under the destination root; when every earlier run ran to its
\* end without a failed directory or symlink creation (and no lookup lost
\* to a 429) and nothing was ever deleted under the destination root, the
\* later run leaves the filesystem identical, attempts no symlink creation
\* and meets no error, also with the link cache cleared in between.
C7_Idempotent ==
    SecondRun =>
        /\ snap.dirs \subseteq dirs
        /\ snap.links \subseteq links
        /\ hist.prevClean =>
              /\ dirs = snap.dirs
              /\ links = snap.links
              /\ ~hist.attempted
              /\ ~hist.fsError

\* Witness of C7: the second run ended after a clean first run that created
\* links, with no link cache to start from.
C7_Witness ==
    /\ SecondRun
    /\ pc = "done"
    /\ hist.prevClean
    /\ snap.links # {}
    /\ snap.linkDisk = EmptyObject

\* C8: with the dry-run flag set, a run creates no directory and no symlink
\* and writes neither cache file.
C8_DryRunNoMutation ==
    (dryRun /\ pc # "start") =>
        /\ dirs = snap.dirs
        /\ links = snap.links
        /\ metaDisk = snap.metaDisk
        /\ linkDisk = snap.linkDisk

\* C9: a failure while processing one file ends only that file's
\* processing: the batch stops only after its last file.
C9_FailureIsolation ==
    pc \in {"done", "aborted"} => idx = Len(files) + 1

\* C10: when the primary provider answers a fetchMovie search with 429, the
\* resolver sleeps the 10 s backoff and then reissues the primary request
\* for the same title and year; meanwhile it does not ask the secondary
\* provider, does not return and does not write the cache.
C10_RateLimitRetry ==
    [][/\ (variant = "movies" /\ pc = "primary" /\ rateLimited' # rateLimited)
          => /\ pc' = "backoff"
             /\ sleepMs' = RATE_LIMIT_BACKOFF
             /\ UNCHANGED <<idx, query, tmdbCache, metaDisk, sAns, notFound>>
       /\ pc = "backoff"
          => /\ pc' = "primary"
             /\ sleepMs' = 0
             /\ UNCHANGED <<idx, query, tmdbCache, metaDisk, sAns, notFound>>]_vars

\* Witness of C10: the first request of a run was answered 429 and the same
\* request is in flight again, the secondary provider not yet asked.
C10_Witness ==
    /\ variant = "movies"
    /\ pc = "primary"
    /\ rateLimited = 1
    /\ run = 1
    /\ idx = 1
    /\ query = Cur.rawTitle
    /\ pAns = EmptyObject
    /\ sAns = EmptyObject

\* A step in which the primary provider answers the request in flight with
\* a non-empty result list.
PrimaryFound ==
    /\ pc \in {"primary", "primary2"}
    /\ rateLimited' = rateLimited
    /\ Found(Get(pAns', <<query, YearParam>>))

\* A step in which the secondary provider answers with a canonical title.
SecondaryMatch ==
    /\ pc = "secondary"
    /\ Get(sAns', <<query, YearParam>>) \notin {Undefined, Miss}

\* C11: the secondary provider is asked only after the primary answered the
\* title with no result or an error other than 429; when the secondary
\* gives a canonical title the primary is asked again with it (or its
\* cached record is taken) and a result found that way is returned; when
\* the secondary has no match the resolution ends with no record.
C11_FallbackChain ==
    [][/\ (pc # "secondary" /\ pc' = "secondary")
          => /\ pc = "primary"
             /\ rateLimited' = rateLimited
             /\ ~Found(Get(pAns', <<query, YearParam>>))
       /\ SecondaryMatch
          => /\ query' = Get(sAns', <<query, YearParam>>).Title
             /\ \/ pc' \in {"primary", "primary2"}
                \/ /\ pc' = "ensure"
                   /\ show' = Get(tmdbCache, CacheKey(variant, query', Cur.year))
                   /\ Truthy(show')
       /\ (PrimaryFound /\ query # Cur.rawTitle)
          => /\ Truthy(show')
             /\ idx' = idx
       /\ (pc = "secondary" /\ sAns' # sAns /\ ~SecondaryMatch)
          => /\ pc' = "file"
             /\ idx' = idx + 1
             /\ <<Cur.rawTitle, Cur.year>> \in notFound']_vars

\* C13: one file at a time and one provider request at a time.  The loop
\* moves to file k+1 only by the return of the call for file k, with no
\* request, sleep, directory creation or cache write of file k pending; a
\* step carries at most one provider answer, for the file at hand.
C13_Sequential ==
    [][/\ (pc \notin {"start", "done", "aborted"} /\ idx' # idx)
          => /\ idx' = idx + 1
             /\ pc' = "file"
             /\ pc \notin {"savemeta", "savelink", "ensure", "backoff"}
             /\ query' = << >>
             /\ ~netCall'
             /\ sleepMs' = 0
       /\ (pAns' # pAns \/ sAns' # sAns \/ rateLimited' # rateLimited)
          => /\ pc \in {"primary", "primary2", "secondary"}
             /\ netCall
             /\ idx \in 1..Len(files)
             /\ pAns' = pAns \/ sAns' = sAns
             /\ rateLimited' = rateLimited \/ (pAns' = pAns /\ sAns' = sAns)]_vars

\* Witness of C13: the second file is at its turn after the first was
\* resolved with a live request, linked, and its link-cache entry saved.
C13_Witness ==
    /\ run = 1
    /\ pc = "file"
    /\ idx = 2
    /\ pAns # EmptyObject
    /\ \E c \in created : c.at = 1 /\ Get(linkDisk, c.base) = c.dest

\* C14: the first provider request of a file is issued only when the base
\* delay was slept since the last provider answer any earlier file got in
\* this run.
C14_DelayOwed ==
    [][(pc = "file" /\ pc' = "primary") => ~hist.owed]_vars

\* The step that skips the current file with no effect: no provider request,
\* no cache entry, no directory, no symlink.
SkippedNoEffect ==
    /\ pc' = "file"
    /\ idx' = idx + 1
    /\ ~netCall'
    /\ UNCHANGED <<caches, tree, providers>>

\* C15: in both series scripts a file whose season/episode token has
\* season 0 is skipped with no effect.
C15_Season0Rejected ==
    [][(/\ variant \in {"series", "gemini"}
        /\ pc = "file"
        /\ idx <= Len(files)
        /\ File.se
        /\ File.season = 0)
       => SkippedNoEffect]_vars

\* C16: in both series scripts a file with no season/episode token or with
\* no title in its name is skipped with no effect, and no link is ever
\* created for it.
C16_UnparsableSkipped ==
    [][(/\ variant \in {"series", "gemini"}
        /\ pc = "file"
        /\ idx <= Len(files)
        /\ (~File.se \/ File.title = << >>))
       => (/\ SkippedNoEffect
           /\ \A l \in links' : l.target.base # File.base)]_vars

\* C12: on every non-empty result list the resolver returns the first result
\* whose release/air year equals the year hint when there is one, and the
\* first result of the list otherwise (fetchFromTMDB of the Gemini script
\* takes no hint).
C12_ResultSelection ==
    (res # Null /\ res.fn \in {"fetchMovie", "fetchSeriesFromTMDB", "fetchFromTMDB"}) =>
        LET results == arg.results
            hint == IF res.fn = "fetchFromTMDB" THEN NoYear ELSE arg.year
            sameYear == {i \in DOMAIN results :
                            /\ hint # NoYear
                            /\ "date" \in DOMAIN results[i]
                            /\ SplitHead(results[i].date) = hint}
        IN  res.out = IF sameYear # {}
                      THEN results[CHOOSE i \in sameYear : \A j \in sameYear : i <= j]
                      ELSE results[1]

\* A list whose first result is of another year and whose second and third
\* are of the hinted year: the second is returned.
C12_Witness ==
    /\ res # Null
    /\ res.fn = "fetchMovie"
    /\ arg.year = Y2021
    /\ arg.results = <<R1984, R2021b, R2021>>
    /\ res.out = R2021b

\* C17: for a token S<ss>E<s>-E<e> the episode list is s, s+1, ..., e when
\* e > s and e - s <= 20 and the single episode s otherwise, in both series
\* parsers; it is never empty.
C17_RangeExpansion ==
    (/\ res # Null
     /\ res.fn \in {"series.parseFileName", "gemini.parseFileName"}
     /\ arg.form = "SE-E") =>
        /\ res.out # Null
        /\ res.out.episodes # << >>
        /\ res.out.episodes =
               IF arg.e > arg.s /\ arg.e - arg.s <= 20
               THEN [k \in 1..(arg.e - arg.s + 1) |-> PadStart2(arg.s + k - 1)]
               ELSE <<PadStart2(arg.s)>>

\* C18 as stated: whenever the name holds two or more distinct E<nn> markers,
\* the episode list of emgo-series.js is exactly the set of marked episodes.
C18_MarkersOverride_Original ==
    (res # Null /\ res.fn = "series.parseFileName" /\ res.out # Null) =>
        LET extraEs == MatchAllE(DotsToSpaces(arg.name), 1)
            marked == {PadStart2(extraEs[k]) : k \in DOMAIN extraEs}
            episodes == res.out.episodes
        IN  Cardinality(marked) >= 2 =>
                /\ {episodes[k] : k \in DOMAIN episodes} = marked
                /\ Len(episodes) = Cardinality(marked)

\* C18 amended: when the matched token has no end marker and the name holds
\* two or more E<nn> markers, the episode list is the distinct marked
\* episodes in order of first appearance; when the token has an end marker
\* the list is the range of that token, whatever markers the name holds.
C18_MarkersOverride ==
    (res # Null /\ res.fn = "series.parseFileName" /\ res.out # Null) =>
        LET name == DotsToSpaces(arg.name)
            match == SeriesMatch(name)
            extraEs == MatchAllE(name, 1)
            marked == {PadStart2(extraEs[k]) : k \in DOMAIN extraEs}
            episodes == res.out.episodes
            First(ep) == CHOOSE k \in DOMAIN extraEs :
                            /\ PadStart2(extraEs[k]) = ep
                            /\ \A h \in 1..(k - 1) : PadStart2(extraEs[h]) # ep
        IN  /\ (match.end = NoGroup /\ Len(extraEs) >= 2) =>
                  /\ {episodes[k] : k \in DOMAIN episodes} = marked
                  /\ Len(episodes) = Cardinality(marked)
                  /\ \A i, j \in DOMAIN episodes :
                        i < j => First(episodes[i]) < First(episodes[j])
            /\ match.end # NoGroup =>
                  episodes =
                     IF match.end > match.start /\ match.end - match.start <= 20
                     THEN [k \in 1..(match.end - match.start + 1) |->
                              PadStart2(match.start + k - 1)]
                     ELSE <<PadStart2(match.start)>>

\* S01E01E03: two markers and no end marker give episodes 01 and 03.
C18_Witness ==
    /\ res # Null
    /\ res.fn = "series.parseFileName"
    /\ arg.form = "SEE" /\ arg.s = 1 /\ arg.e = 3 /\ arg.suffix = NoSuffix
    /\ res.out # Null
    /\ res.out.episodes = <<PadStart2(1), PadStart2(3)>>

\* C19: the episode list of every parse has no duplicate and is strictly
\* ascending.
C19_UniqueAscending ==
    (/\ res # Null
     /\ res.fn \in {"series.parseFileName", "gemini.parseFileName"}
     /\ res.out # Null) =>
        \A i, j \in DOMAIN res.out.episodes :
            i < j => Int2(res.out.episodes[i], 1) < Int2(res.out.episodes[j], 1)

\* C20: the first matching pattern wins: tokens of the form of another
\* pattern after the matched token leave the parse as it is without them.
C20_FirstPatternWins ==
    (/\ res # Null
     /\ res.fn \in {"series.parseFileName", "gemini.parseFileName"}
     /\ \/ arg.form \in {"NxM", "NxMx", "NxM-x", "NMM", "NMM-"} /\ arg.suffix = MarkerSuffix
        \/ arg.form \in {"SE", "SEE", "SE-E", "SE-"} /\ arg.suffix = NxSuffix) =>
        res.out = IF res.fn = "series.parseFileName" THEN SeriesEpisodes(arg.base)
                  ELSE GeminiEpisodes(arg.base)

\* C27: one resolution of fetchMovie issues at most one secondary-provider
\* query: the secondary provider is never asked about a title that is
\* itself the canonical title of an earlier answer of this resolution.
C27_ResolverTerminates ==
    ~(/\ variant = "movies"
      /\ pc = "secondary"
      /\ query # Cur.rawTitle)

\* C29: for a series file with several episodes, a link-cache hit for its
\* basename implies that the destination link of every one of its episodes
\* exists.
C29_HitImpliesAllEpisodes ==
    (/\ variant \in {"series", "gemini"}
     /\ pc = "file"
     /\ idx <= Len(files)
     /\ Cur # Null
     /\ Len(Cur.episodes) > 1
     /\ LinkCacheHit(File.base)) =>
        \A k \in DOMAIN Cur.episodes :
            pathExists([Get(linkCache, File.base) EXCEPT !.file[3] = Cur.episodes[k]])

\* C30: every symlink of a series script has a well-formed episode code:
\* a two-digit season >= 01 and a two-digit episode in its file name, in
\* the folder of the same season as an integer.
C30_WellFormedEpisodeCode ==
    variant \in {"series", "gemini"} =>
        \A l \in links :
            /\ \E n \in 1..5 : /\ l.path.file[2] = Pad2(n)
                               /\ l.path.seasonDir = ParseIntStr(Pad2(n))
            /\ \E n \in 1..5 : l.path.file[3] = Pad2(n)

\* The title has no '/' (which createSymlink of emgo-movies.js also rewrites).
NoSlash(t) == \A i \in DOMAIN t : t[i] # "/"

NoColon(t) == \A i \in DOMAIN t : t[i] # ":"

\* C21: no generated component of a destination path holds a raw ':': in
\* the title every ': ' has become ' - ' and every remaining ':' has
\* become ' -'.
C21_NoRawColon ==
    (res # Null /\ res.fn \in {"movies.dest", "series.dest", "gemini.dest"}) =>
        /\ NoColon(TitleOf(res.out))
        /\ NoColon(res.out.file[1])
        /\ NoSlash(arg.title) =>
             /\ TitleOf(res.out) = newName(arg.title)
             /\ res.out.file[1] = newName(arg.title)

\* C22: the rewrite of ':' at creation in emgo-movies.js gives, for every
\* title, the name that fix-names and the shell renamer give, and the
\* created name is left as it is by both.
C22_RewriteAgrees ==
    (res # Null /\ res.fn = "rewrite") =>
        /\ res.created = ReplaceChar(res.fixed, "/", <<"-">>)
        /\ res.created = ReplaceChar(res.renamed, "/", <<"-">>)
        /\ res.fixedAgain = res.created
        /\ res.renamedAgain = res.created

\* A title with ': ' and a further ':' went through the rewrite.
C22_Witness ==
    /\ res # Null
    /\ res.fn = "rewrite"
    /\ arg.title = <<":", " ", ":">>

ScenarioDestination ==
    <<"/", "d", "e", "s", "t", "/", "S", "o", "m", "e", " ", "M", "o", "v", "i", "e", " ", "(", "2", "0", "2", "0", ")", "/", "S", "o", "m", "e", " ", "M", "o", "v", "i", "e", " ", "(", "2", "0", "2", "0", ")", " ", "-", " ", "1", "0", "8", "0", "P", " ", "W", "E", "B", "-", "D", "L", " ", "X", "2", "6", "4", ".", "m", "k", "v">>

\* The two files of the input have the same descriptors and extension.
SameRelease ==
    /\ res.parsedA.descriptors = res.parsedB.descriptors
    /\ extname(arg.a) = extname(arg.b)

C23_OnlyRootAborts ==
    (arg.kind = "walk" /\ res.pc = "rejected") => SourceRoot \in arg.unreadable

\* C24: no run creates, removes or writes a file or directory under the
\* source root.
C24_SourceUntouched ==
    arg.kind = "walk" => \A w \in res.writes : ~IsUnder(w.path, SourceRoot)

\* C28: the files are processed in the order of the depth-first walk, each
\* once: nothing is processed before the enumeration has returned, the k-th
\* file processed is the k-th file of the walk, and a loop that reaches its
\* end has processed them all.
C28_EnumerationOrder ==
    arg.kind = "walk" =>
        /\ res.pc \in {"main", "enumerate", "rejected"} => res.processed = << >>
        /\ res.pc \in {"loop", "aborted", "done"} => res.files = DepthFirst(SourceRoot, 1)
        /\ Len(res.processed) <= Len(DepthFirst(SourceRoot, 1))
        /\ \A k \in DOMAIN res.processed : res.processed[k] = DepthFirst(SourceRoot, 1)[k]
        /\ res.pc = "loop" => Len(res.processed) = res.k - 1
        /\ res.pc = "done" => res.processed = DepthFirst(SourceRoot, 1)

\* A run over the tree with files before, inside and after subdirectories
\* has reached the end of its loop.
C28_Witness ==
    /\ arg.kind = "walk"
    /\ res.pc = "done"
    /\ Len(res.processed) = 5
    /\ res.processed[2] = SourceRoot \o <<"s1", "c.mkv">>
    /\ res.processed[5] = SourceRoot \o <<"b.mp4">>

\* C25: an upload whose request failed with a transient network failure is
\* attempted again, up to MAX_REINTENTOS attempts in all, after a wait of
\* 2000 ms times the number of the failed attempt.
C25_TransientRetried ==
    (arg.kind = "upload" /\ res.pc \in {"returned", "thrown"}) =>
        /\ res.calls <= MAX_REINTENTOS
        /\ \A k \in DOMAIN res.errs :
             (esTemporal(res.errs[k]) /\ k < MAX_REINTENTOS) =>
                 /\ res.calls > k
                 /\ Len(res.waits) >= k
                 /\ res.waits[k] = 2000 * k

\* C31: link-cache soundness.  A step of a run that changes the in-memory
\* link cache (the load at the start of main and the restart of the script
\* aside) adds exactly one entry: the basename of the file being processed,
\* mapped to the destination at which this very step created a symlink to
\* that source file; the run is no dry run, and the destination did not
\* exist before.
C31_LinkCacheSound ==
    [][(pc # "start" /\ pc' # "start" /\ linkCache' # linkCache) =>
          /\ ~dryRun
          /\ linkCache' = Put(linkCache, File.base, Dest)
          /\ SourcePath.base = File.base
          /\ [path |-> Dest, target |-> SourcePath] \in links' \ links
          /\ ~pathExists(Dest)]_vars

C31_Witness ==
    /\ pc \in {"savelink", "link"}
    /\ ~dryRun
    /\ idx = 2
    /\ hist.fsError
    /\ \E c \in created :
         /\ c.at = idx
         /\ c.base = File.base
         /\ Get(linkCache, c.base) = c.dest
         /\ [path |-> c.dest, target |-> SourcePath] \in links \ snap.links

\* The rejections of fn that withRetry has caught so far: the errors of the
\* requests, unless the upload function catches them itself and resolves.
Rejections ==
    IF CatchesOwnErrors(arg.script, arg.upload) THEN << >> ELSE res.errs

\* C34: withRetry is bounded and selective.  fn is invoked at most
\* MAX_REINTENTOS times; withRetry returns at the first invocation that
\* resolves, all rejections before it being transient and each followed by
\* one wait; a rejection that is not transient ends withRetry at once, and
\* when it is the first one fn was invoked exactly once and nothing was
\* waited for; when MAX_REINTENTOS invocations were rejected the last
\* rejection is rethrown and no wait follows it.
C34_BoundedSelective ==
    (arg.kind = "upload") =>
        /\ res.calls <= MAX_REINTENTOS
        /\ \A k \in 1..Len(res.waits) : esTemporal(Rejections[k])
        /\ res.pc = "returned" =>
              /\ res.calls = Len(Rejections) + 1
              /\ Len(res.waits) = Len(Rejections)
        /\ res.pc = "thrown" =>
              /\ res.calls = Len(Rejections)
              /\ Len(res.waits) = res.calls - 1
              /\ ~esTemporal(Rejections[res.calls]) \/ res.calls = MAX_REINTENTOS
        /\ (Rejections # << >> /\ ~esTemporal(Rejections[1])) =>
              /\ res.pc = "thrown"
              /\ res.calls = 1
              /\ res.waits = << >>
        /\ (\E k \in 1..Len(Rejections) : ~esTemporal(Rejections[k])) =>
              res.pc = "thrown"
        /\ Len(Rejections) = MAX_REINTENTOS =>
              /\ res.pc = "thrown"
              /\ Len(res.waits) = MAX_REINTENTOS - 1

\* Witness of C34: every invocation was rejected with a transient error and
\* the last of them is rethrown after two waits.
C34_Witness ==
    /\ arg.kind = "upload"
    /\ res.pc = "thrown"
    /\ res.calls = MAX_REINTENTOS
    /\ Len(Rejections) = MAX_REINTENTOS
    /\ \A k \in 1..MAX_REINTENTOS : esTemporal(Rejections[k])
    /\ res.waits = <<ESPERA_MS, 2 * ESPERA_MS>>

\* C32: the watcher queue has a single consumer and keeps FIFO order.  At
\* most one activation of procesarCola is in its loop, and procesando is
\* true exactly then; the files dequeued so far, followed by the queue, are
\* the files in the order their 'add' events arrived, once each; the
\* uploads start in that order; and every upload has ended before the next
\* one starts.
C32_SingleConsumerFifo ==
    (arg.kind = "watch") =>
        /\ Len(res.loops) <= 1
        /\ res.procesando <=> res.loops # << >>
        /\ res.dequeued \o res.cola = res.arrivals
        /\ \A i, j \in DOMAIN res.arrivals : i # j => res.arrivals[i] # res.arrivals[j]
        /\ \A i, j \in DOMAIN res.log :
              (i < j /\ res.log[i][1] = "start" /\ res.log[j][1] = "start") =>
                  \E a, b \in DOMAIN res.arrivals :
                      /\ a < b
                      /\ res.arrivals[a] = res.log[i][2]
                      /\ res.arrivals[b] = res.log[j][2]
        /\ \A i \in DOMAIN res.log :
              IF i % 2 = 1
              THEN res.log[i][1] = "start"
              ELSE res.log[i] = <<"end", res.log[i - 1][2]>>

\* Witness of C32: an 'add' event came while procesarCola was at an await,
\* three files went through the queue and two of them were uploaded.
C32_Witness ==
    /\ arg.kind = "watch"
    /\ res.busyAdd
    /\ Len(res.dequeued) = 3
    /\ res.cola = << >>
    /\ Len(res.log) = 4
    /\ ~res.procesando

\* The files the watcher can see in a queue.
WatchPaths(drops) == drops \cup {Destino(p) : p \in drops}

InSeq(p, s) == \E i \in DOMAIN s : s[i] = p

\* C33: no stranded work in the watcher.  Whenever procesando is false
\* the queue is empty; when every remote call returns or fails and every
\* timer fires, every file in the queue is eventually processed; and
\* procesando, once true, becomes false again, also after an exception in
\* the processing of a file.
C33_NoStrandedWork ==
    /\ [](arg.kind = "watch" => (~res.procesando => res.cola = << >>))
    /\ \A b \in DropBatches : \A p \in WatchPaths(b) :
          (arg.kind = "watch" /\ InSeq(p, res.cola))
              ~> (InSeq(p, res.dequeued) /\ InSeq(p, res.processed))
    /\ (arg.kind = "watch" /\ res.procesando) ~> ~res.procesando
    /\ (arg.kind = "watch" /\ res.threw /\ res.procesando) ~> ~res.procesando

\* Witness of C33: the upload of a file was rejected and the rejection
\* reached the catch of the loop; the files queued behind it were
\* processed and procesando is false.
C33_Witness ==
    /\ arg.kind = "watch"
    /\ res.threw
    /\ res.busyAdd
    /\ ~res.procesando
    /\ res.cola = << >>
    /\ Len(res.processed) = 3
    /\ \E i \in DOMAIN res.log : res.log[i][1] = "start" /\ i > 1

\* C35: watcher file disposition.  A dropped file that was processed is
\* deleted, or in the folder of rejected files, or in place, never in two
\* of these; it is deleted only if the service accepted its upload, and in
\* the folder of rejected files only if the service answered
\* infringing_file; and a file in the folder of rejected files is never put
\* in the queue or uploaded by the watcher.
C35_Disposition ==
    (arg.kind = "watch") =>
        /\ \A p \in arg.drops :
              InSeq(p, res.processed) =>
                  /\ ~(p \in res.disk /\ Destino(p) \in res.disk)
                  /\ (p \notin res.disk /\ Destino(p) \notin res.disk) => p \in res.accepted
                  /\ Destino(p) \in res.disk => p \in res.rejected
        /\ \A p \in arg.drops :
              /\ ~InSeq(Destino(p), res.arrivals)
              /\ \A i \in DOMAIN res.log : res.log[i][2] # Destino(p)

\* Where the renames from the i-th on have taken the path p.
RECURSIVE Follow(_, _, _)
Follow(p, renames, i) ==
    IF i > Len(renames) THEN p
    ELSE IF AtOrUnder(p, renames[i].old)
         THEN Follow(ReplacePrefix(p, renames[i].old, renames[i].new), renames, i + 1)
         ELSE Follow(p, renames, i + 1)

\* C36: fix-names keeps the link cache consistent with its renames.  When
\* it has finished: no rename went onto a path that had an entry, and an
\* item whose sanitized name existed is still where it was; every value of
\* the link cache that lay at or under a renamed path has that prefix
\* replaced by the new path and every other value is as it was loaded; and
\* the cache file was rewritten only if a value changed.
C36_CacheFollowsRenames ==
    (arg.kind = "fix" /\ res.pc = "done") =>
        /\ \A i \in DOMAIN res.renames : ~res.renames[i].onto
        /\ \A p \in res.kept : EntryAt(res.tree, p)
        /\ \A k \in DOMAIN arg.cache :
              res.linkCache[k] = Follow(arg.cache[k], res.renames, 1)
        /\ res.written => res.linkCache # arg.cache

====
